---- MODULE Spec2Model ----
(***************************************************************************)
(* The generated runtime of adapter-node-rolldown: the server entry        *)
(* (start, the probes, gracefulShutdown and the process-level handlers)    *)
(* and the telemetry module it drives (initTelemetry, shutdownTelemetry).  *)
(*                                                                         *)
(* Node runs one callback to completion before it looks at the next        *)
(* event: a continuation that is ready (a resolved await, a nextTick       *)
(* callback) always runs before a signal, a socket event or a timer.  The  *)
(* model keeps that: every step of the outside world is guarded by         *)
(* Quiescent, which is false while a continuation is ready.                *)
(*                                                                         *)
(* RequestSpec follows one request down the handler chain that start()     *)
(* registers, with the body parser of files/middlewares.js and the events  *)
(* of the request's body stream.                                           *)
(*                                                                         *)
(* BuildSpec is the adapter at build time: adapt(builder) in the three     *)
(* versions the repository holds (index.js, and the two earlier ones with  *)
(* the telemetry externals and with the bundleAll option), its two         *)
(* bundling passes and the package.json it writes last.                    *)
(*                                                                         *)
(* MatcherSpec is the RegExp that adapt() compiles from one name of        *)
(* allExternal, applied to import references.                              *)
(***************************************************************************)
EXTENDS Integers, Sequences, FiniteSets, TLC

\* ------------------------------------------------------------------ bounds
\* Transport connections the model tracks.
MaxConns == 2
\* Shutdown triggers the outside world delivers (signals and faults).
MaxTriggers == 2
\* config.gracefulShutdownTimeout, counted in ticks of the model's clock.
TimeoutTicks == 2
\* parseLimit(config.bodyLimit), in bytes of the model's scale.
MaxLimit == 2
\* The length of one chunk of a request body.
MaxChunkLen == 2
\* The 'data' events one request body is followed for.
MaxChunks == 3
\* Builds into the same output directory, one after the other.
MaxBuilds == 2
\* The length of a name given to the RegExp constructor.
MaxNameLen == 2
\* The length of an import reference.
MaxRefLen == 3
\* The messages one upgraded socket receives.
MaxMessages == 3
\* The length of a body limit given as a string.
MaxLimitLen == 5
\* The number of words in the pathname of a static file.
MaxPathLen == 2

ConnIds == 1..MaxConns

\* The four process-level events that call gracefulShutdown.
Signals == {"SIGTERM", "SIGINT", "UNCAUGHT_EXCEPTION", "UNHANDLED_REJECTION"}

\* What server.listen(config.port, config.host) meets: a free port, a port
\* that is taken (an asynchronous 'error' event) or a port that is no port
\* (listen throws before it returns).
PortKinds == {"free", "inuse", "bad"}

\* The part of `config` that decides the control flow.
Configs ==
    [telemetry : BOOLEAN, websocket : BOOLEAN, healthCheck : BOOLEAN,
     port : PortKinds]

VARIABLES
    cfg,                \* config, resolved once at process start
    isShuttingDown,     \* let isShuttingDown
    server,             \* let server: "null", "created", "listening", "closed"
    wsServer,           \* let wsServer: "null", "open", "closing", "closed"
    sdk,                \* telemetry.js sdk: "null", "constructed", "started"
    startPc,            \* where start() is
    shutdownPc,         \* where gracefulShutdown() is
    pendingError,       \* an 'error' event of the listener waits on nextTick
    forceShutdownTimer, \* ticks left on the armed timer, -1 when not armed
    conn,               \* each transport connection: closed, idle, busy, ws
    notified,           \* upgrade-channel connections sent close(1001)
    exitCode,           \* -1 while the process lives, else process.exit's code
    exitBy,             \* which process.exit call ended the process
    lastProbe,          \* the last answer a probe handler wrote
    drainLog,           \* the drain steps taken so far, in order
    triggers,           \* shutdown triggers delivered so far
    firstSignal,        \* the signal name the drain was started with
    timersArmed,        \* setTimeout calls of gracefulShutdown
    closeCalls,         \* server.close calls
    sdkShutdownCalls,   \* sdk.shutdown calls
    elapsed,            \* ticks since the drain began
    telemetryInit,      \* how initTelemetry ended
    stepThrew,          \* the drain steps that threw or rejected
    bindFailed,         \* server.listen failed
    acceptedDraining,   \* a connection was accepted while isShuttingDown
    inFlightAtDrain,    \* requests in flight at drain begin, not yet finished
    wsOnlyDrain,        \* the drain began with upgraded connections open and
                        \* no other, and no peer has closed one unasked
    req,                \* the request in the chain: method, path,
                        \* content-type header, body
    stage,              \* the handler of the chain the request is at
    reached,            \* the handlers that have run for the request
    limitBytes,         \* createBodyParser: const limitBytes
    size,               \* createBodyParser: let size
    data,               \* createBodyParser: let data, chunk by chunk
    listeners,          \* the listeners the body parser has on req
    stream,             \* the body stream: paused, flowing, ended, errored
    arrived,            \* bytes the body stream has emitted
    chunks,             \* 'data' events the body stream has emitted
    resWrites,          \* the status of every res.writeHead that went through
    nextCalls,          \* calls of next() by the body parser
    ws,                 \* the upgraded socket: "none", "open", "closed"
    wsMessages,         \* the 'message' events of the socket, in order
    wsSent,             \* what ws.send was called with, in order
    variant,            \* which version of the adapter runs
    options,            \* the adapter options of the build
    pkg,                \* the project's package.json
    buildPc,            \* where adapt() is
    pass1,              \* Pass 1: none, bundling, writing, written, failed
    pass2,              \* Pass 2, the same
    externalPatterns,   \* const externalPatterns, as the rules compiled
    runtimeExternalPatterns, \* const runtimeExternalPatterns
    outDir,             \* what the output directory holds
    builds,             \* calls of adapt() so far
    descriptorWrites,   \* package.json files written so far
    descriptor,         \* finalDeps of the package.json in the output
                        \* directory: name to where its range comes from
    pass2Options,       \* the options object handed to rolldown in Pass 2
    pass1Options,       \* the options object handed to rolldown in Pass 1
    hasServerInstrumentationFile,
                        \* what builder.hasServerInstrumentationFile?.()
                        \* answers in this build
    buildLog,           \* builder.instrument and the write of package.json
                        \* in this build, in the order of the calls
    rxName,             \* d, a name of allExternal, character by character
    rxSource,           \* the escaped name inside the RegExp's source
    rxRef,              \* the reference the RegExp was last applied to
    rxVerdict,          \* what RegExp.test answered: accepts, rejects
    bodyLimit,          \* config.bodyLimit: a number or a string
    parsedLimit,        \* <<what parseLimit(config.bodyLimit) returned>>
    compression,        \* config.compression and config.compressionLevel
    asset,              \* the request for a path: where the file is
    sent,               \* the response when its header is written
    contentEncoding     \* what the compression handler made of the body

lifeVars == <<isShuttingDown, server, wsServer, sdk>>
startVars == <<startPc, pendingError, telemetryInit, bindFailed>>
drainVars ==
    <<shutdownPc, forceShutdownTimer, drainLog, firstSignal, timersArmed,
      closeCalls, sdkShutdownCalls, elapsed, stepThrew, inFlightAtDrain,
      wsOnlyDrain>>
netVars == <<conn, notified, acceptedDraining>>
exitVars == <<exitCode, exitBy>>

vars ==
    <<cfg, isShuttingDown, server, wsServer, sdk, startPc, shutdownPc,
      pendingError, forceShutdownTimer, conn, notified, exitCode, exitBy,
      lastProbe, drainLog, triggers, firstSignal, timersArmed, closeCalls,
      sdkShutdownCalls, elapsed, telemetryInit, stepThrew, bindFailed,
      acceptedDraining, inFlightAtDrain, wsOnlyDrain>>

channelVars == <<ws, wsMessages, wsSent>>

requestVars ==
    <<req, stage, reached, limitBytes, size, data, listeners, stream,
      arrived, chunks, resWrites, nextCalls, ws, wsMessages, wsSent>>

\* No request is in the chain.
NoRequest ==
    [method |-> "none", path |-> "none", contentType |-> "none",
     body |-> "unset"]

RequestIdle ==
    /\ req = NoRequest
    /\ stage = "none"
    /\ reached = <<>>
    /\ size = 0
    /\ data = <<>>
    /\ listeners = {}
    /\ stream = "paused"
    /\ arrived = 0
    /\ chunks = 0
    /\ resWrites = <<>>
    /\ nextCalls = 0
    /\ ws = "none"
    /\ wsMessages = <<>>
    /\ wsSent = <<>>

matchVars == <<rxName, rxSource, rxRef, rxVerdict>>

limitVars == <<bodyLimit, parsedLimit>>

\* No limit has been read.
LimitIdle ==
    /\ bodyLimit = [kind |-> "number", value |-> 0]
    /\ parsedLimit = <<>>

responseVars == <<compression, asset, sent, contentEncoding>>

\* No request for a path has been made.
NoAsset ==
    [pathname |-> "none", client |-> FALSE, prerendered |-> FALSE,
     negotiable |-> FALSE, length |-> 0]

\* No response has been written.
NoResponse ==
    [from |-> "none", cacheControl |-> "none", variant |-> FALSE,
     contentType |-> "none", length |-> 0]

NoEncoding == [coding |-> "none", level |-> 0]

ResponseIdle ==
    /\ compression = [enabled |-> FALSE, level |-> 6]
    /\ asset = NoAsset
    /\ sent = NoResponse
    /\ contentEncoding = NoEncoding

\* The variables of the checks of single functions.
pureVars == <<matchVars, limitVars, responseVars>>

\* No RegExp is under test.
MatchIdle ==
    /\ rxName = <<>>
    /\ rxSource = <<>>
    /\ rxRef = <<>>
    /\ rxVerdict = "none"

buildVars ==
    <<variant, options, pkg, buildPc, pass1, pass2, externalPatterns,
      runtimeExternalPatterns, outDir, builds, descriptorWrites,
      descriptor, pass2Options, pass1Options,
      hasServerInstrumentationFile, buildLog>>

\* An object without keys.
EmptyObject == [key \in {} |-> TRUE]

\* { ...a, ...b }: the keys of both, b's value where both have the key.
spread(a, b) == b @@ a

\* object[key], and otherwise when the object has no such key: the
\* `object?.key || otherwise` of the source.
get(object, key, otherwise) ==
    IF key \in DOMAIN object THEN object[key] ELSE otherwise

\* The options of the adapter when none is given.
NoOptions ==
    [bundleAll |-> FALSE,
     external |-> [kind |-> "none", names |-> {}, result |-> "names"],
     telemetry |-> TRUE,
     websocket |-> TRUE,
     rolldownOptions |-> EmptyObject]

NoManifest == [dependencies |-> {}, devDependencies |-> {}]

\* adapt() has not been called.
BuildIdle ==
    /\ variant = "index.js"
    /\ options = NoOptions
    /\ pkg = NoManifest
    /\ buildPc = "idle"
    /\ pass1 = "none"
    /\ pass2 = "none"
    /\ externalPatterns = {}
    /\ runtimeExternalPatterns = {}
    /\ outDir = {}
    /\ builds = 0
    /\ descriptorWrites = 0
    /\ descriptor = EmptyObject
    /\ pass2Options = EmptyObject
    /\ pass1Options = EmptyObject
    /\ hasServerInstrumentationFile = FALSE
    /\ buildLog = <<>>

NoProbe == [path |-> "none", status |-> 0, body |-> "none", triggered |-> FALSE]

\* The module has been evaluated: the handlers are registered and start()
\* is suspended at `await initTelemetry()`.
ProcessStart ==
    /\ cfg \in Configs
    /\ isShuttingDown = FALSE
    /\ server = "null"
    /\ wsServer = "null"
    /\ sdk = "null"
    /\ startPc = IF cfg.telemetry THEN "await_import" ELSE "await_disabled"
    /\ shutdownPc = "idle"
    /\ pendingError = FALSE
    /\ forceShutdownTimer = -1
    /\ conn = [c \in ConnIds |-> "closed"]
    /\ notified = {}
    /\ exitCode = -1
    /\ exitBy = "none"
    /\ lastProbe = NoProbe
    /\ drainLog = <<>>
    /\ triggers = 0
    /\ firstSignal = "none"
    /\ timersArmed = 0
    /\ closeCalls = 0
    /\ sdkShutdownCalls = 0
    /\ elapsed = 0
    /\ telemetryInit = "pending"
    /\ stepThrew = {}
    /\ bindFailed = FALSE
    /\ acceptedDraining = FALSE
    /\ inFlightAtDrain = {}
    /\ wsOnlyDrain = FALSE

Init ==
    /\ ProcessStart
    /\ RequestIdle
    /\ limitBytes = MaxLimit
    /\ BuildIdle
    /\ MatchIdle
    /\ LimitIdle
    /\ ResponseIdle

\* ------------------------------------------------------------ scheduling
Alive == exitCode = -1

\* wsServer.clients: the upgraded connections that are open.
Clients == {c \in ConnIds : conn[c] = "ws"}

\* The connections the listener counts: its 'close' event, and so the
\* callback of server.close, waits until there is none, upgraded ones
\* included.
OpenConns == {c \in ConnIds : conn[c] # "closed"}

\* A variant of server.close whose callback does not wait for connections.
serverCloseDone_noWait == TRUE

\* The 'close' event of the listener, which calls the callback of
\* server.close: no connection is left.
serverCloseDone == OpenConns = {}

\* A continuation is ready to run: the outside world waits.
ContinuationReady ==
    \/ pendingError
    \/ startPc = "await_disabled"
    \/ shutdownPc \in {"server", "ws", "telemetry", "finish", "catch"}
    \/ shutdownPc = "await_server_close" /\ serverCloseDone
    \/ shutdownPc = "await_ws_close" /\ Clients = {}

Quiescent == Alive /\ ~ContinuationReady

\* A variant of process.exit whose code is 1 whenever a fault began the
\* drain.
Exit_byTrigger(code, by) ==
    /\ exitCode' =
           IF firstSignal \in {"UNCAUGHT_EXCEPTION", "UNHANDLED_REJECTION"}
           THEN 1
           ELSE code
    /\ exitBy' = by

\* process.exit(code)
Exit(code, by) ==
    /\ exitCode' = code
    /\ exitBy' = by


\* ------------------------------------------------------------------ start
\* start(), from `server = createServer()` to the call of server.listen,
\* which runs without suspension once initTelemetry has returned.  The
\* upgrade-channel server is attached to the same listener when enabled.
\* A taken port is reported by an 'error' event on the next tick; a value
\* that is no port makes listen throw, start() rejects and the handler of
\* start().catch calls process.exit(1).
start ==
    /\ wsServer' = IF cfg.websocket THEN "open" ELSE wsServer
    /\ server' = IF cfg.port = "free" THEN "listening" ELSE "created"
    /\ startPc' = IF cfg.port = "bad" THEN "rejected" ELSE "done"
    /\ pendingError' = (cfg.port = "inuse")
    /\ bindFailed' = (cfg.port # "free")
    /\ IF cfg.port = "bad" THEN Exit(1, "start_catch") ELSE UNCHANGED exitVars

\* start() rejects before it creates the listener (what a throwing
\* initTelemetry would do): start().catch exits with code 1.
startRejected ==
    /\ startPc' = "rejected"
    /\ Exit(1, "start_catch")
    /\ UNCHANGED <<server, wsServer, pendingError, bindFailed>>

\* A variant of the catch block of initTelemetry that lets the error out.
initTelemetryCatch_rethrow == startRejected

\* The catch block of initTelemetry: log, return null; start() goes on.
initTelemetryCatch == start

\* config.telemetry.enabled is false: initTelemetry returns null at once and
\* start() resumes in the same turn of the event loop.
InitTelemetryDisabled ==
    /\ Alive
    /\ startPc = "await_disabled"
    /\ telemetryInit' = "disabled"
    /\ start
    /\ UNCHANGED <<requestVars, buildVars, pureVars>>
    /\ UNCHANGED <<cfg, isShuttingDown, sdk, lastProbe, triggers>>
    /\ UNCHANGED drainVars
    /\ UNCHANGED netVars

\* The dynamic imports resolve and `sdk = new NodeSDK(...)` is assigned;
\* initTelemetry is suspended at `await sdk.start()`.
InitTelemetryConstruct ==
    /\ Quiescent
    /\ startPc = "await_import"
    /\ sdk' = "constructed"
    /\ startPc' = "await_sdk_start"
    /\ UNCHANGED <<requestVars, buildVars, pureVars>>
    /\ UNCHANGED <<cfg, isShuttingDown, server, wsServer, pendingError,
                   telemetryInit, bindFailed, lastProbe, triggers>>
    /\ UNCHANGED drainVars
    /\ UNCHANGED netVars
    /\ UNCHANGED exitVars

\* An import rejects or a constructor throws: sdk is still null.
InitTelemetryImportFails ==
    /\ Quiescent
    /\ startPc = "await_import"
    /\ telemetryInit' = "failed"
    /\ initTelemetryCatch
    /\ UNCHANGED <<requestVars, buildVars, pureVars>>
    /\ UNCHANGED <<cfg, isShuttingDown, sdk, lastProbe, triggers>>
    /\ UNCHANGED drainVars
    /\ UNCHANGED netVars

\* sdk.start() resolves: initTelemetry returns sdk.
InitTelemetryStarted ==
    /\ Quiescent
    /\ startPc = "await_sdk_start"
    /\ sdk' = "started"
    /\ telemetryInit' = "ok"
    /\ start
    /\ UNCHANGED <<requestVars, buildVars, pureVars>>
    /\ UNCHANGED <<cfg, isShuttingDown, lastProbe, triggers>>
    /\ UNCHANGED drainVars
    /\ UNCHANGED netVars

\* sdk.start() rejects: the catch block runs, sdk keeps the object that
\* line 46 assigned.
InitTelemetryStartFails ==
    /\ Quiescent
    /\ startPc = "await_sdk_start"
    /\ telemetryInit' = "failed"
    /\ initTelemetryCatch
    /\ UNCHANGED <<requestVars, buildVars, pureVars>>
    /\ UNCHANGED <<cfg, isShuttingDown, sdk, lastProbe, triggers>>
    /\ UNCHANGED drainVars
    /\ UNCHANGED netVars

\* ------------------------------------------------------- gracefulShutdown
\* The requests in flight: connections whose request has no response yet.
InFlight == {c \in ConnIds : conn[c] = "busy"}

\* A variant of the entry of gracefulShutdown that arms the timer and
\* starts the drain without setting the flag.
beginDrain_flagLater(signal) ==
    /\ isShuttingDown' = isShuttingDown
    /\ firstSignal' = signal
    /\ forceShutdownTimer' = TimeoutTicks
    /\ timersArmed' = timersArmed + 1
    /\ drainLog' = Append(drainLog, "arm")
    /\ shutdownPc' = "server"
    /\ elapsed' = 0
    /\ inFlightAtDrain' = InFlight
    /\ wsOnlyDrain' = (Clients # {} /\ OpenConns = Clients)
    /\ UNCHANGED <<closeCalls, sdkShutdownCalls, stepThrew>>

\* The body of gracefulShutdown after the guard: set the flag, arm the
\* deadline timer, enter the try block.
beginDrain(signal) ==
    /\ isShuttingDown' = TRUE
    /\ firstSignal' = signal
    /\ forceShutdownTimer' = TimeoutTicks
    /\ timersArmed' = timersArmed + 1
    /\ drainLog' = Append(drainLog, "arm")
    /\ shutdownPc' = "server"
    /\ elapsed' = 0
    /\ inFlightAtDrain' = InFlight
    /\ wsOnlyDrain' = (Clients # {} /\ OpenConns = Clients)
    /\ UNCHANGED <<closeCalls, sdkShutdownCalls, stepThrew>>

\* gracefulShutdown without its guard.
gracefulShutdown_noGuard(signal) == beginDrain(signal)

\* gracefulShutdown(signal) up to its first await.
gracefulShutdown(signal) ==
    IF isShuttingDown
    THEN UNCHANGED <<isShuttingDown>> /\ UNCHANGED drainVars
    ELSE beginDrain(signal)

\* process.on(signal, ...): a termination signal or a fault reaches the
\* process while it is idle.
Trigger(signal) ==
    /\ Quiescent
    /\ triggers < MaxTriggers
    /\ triggers' = triggers + 1
    /\ gracefulShutdown(signal)
    /\ UNCHANGED <<requestVars, buildVars, pureVars>>
    /\ UNCHANGED <<cfg, server, wsServer, sdk, lastProbe>>
    /\ UNCHANGED startVars
    /\ UNCHANGED netVars
    /\ UNCHANGED exitVars

\* The listener's 'error' event has no listener: it is thrown, and the
\* 'uncaughtException' handler calls gracefulShutdown.
BindError ==
    /\ Alive
    /\ pendingError
    /\ pendingError' = FALSE
    /\ triggers' = triggers + 1
    /\ gracefulShutdown("UNCAUGHT_EXCEPTION")
    /\ UNCHANGED <<requestVars, buildVars, pureVars>>
    /\ UNCHANGED <<cfg, server, wsServer, sdk, lastProbe, startPc,
                   telemetryInit, bindFailed>>
    /\ UNCHANGED netVars
    /\ UNCHANGED exitVars

\* `if (server) await new Promise(... server.close(...))`: the listener
\* stops accepting at the call; the callback comes with its 'close' event.
DrainServer ==
    /\ Alive
    /\ shutdownPc = "server"
    /\ IF server # "null"
       THEN /\ server' = "closed"
            /\ closeCalls' = closeCalls + 1
            /\ drainLog' = Append(drainLog, "server_close")
            /\ shutdownPc' = "await_server_close"
       ELSE /\ shutdownPc' = "ws"
            /\ UNCHANGED <<server, closeCalls, drainLog>>
    /\ UNCHANGED <<requestVars, buildVars, pureVars>>
    /\ UNCHANGED <<cfg, isShuttingDown, wsServer, sdk, lastProbe, triggers,
                   forceShutdownTimer, firstSignal, timersArmed,
                   sdkShutdownCalls, elapsed, stepThrew, inFlightAtDrain,
                   wsOnlyDrain>>
    /\ UNCHANGED startVars
    /\ UNCHANGED netVars
    /\ UNCHANGED exitVars

\* The callback of server.close: every connection of the listener is gone.
ServerClosed ==
    /\ Alive
    /\ shutdownPc = "await_server_close"
    /\ serverCloseDone
    /\ drainLog' = Append(drainLog, "server_closed")
    /\ shutdownPc' = "ws"
    /\ UNCHANGED <<requestVars, buildVars, pureVars>>
    /\ UNCHANGED <<cfg, lastProbe, triggers, forceShutdownTimer, firstSignal,
                   timersArmed, closeCalls, sdkShutdownCalls, elapsed,
                   stepThrew, inFlightAtDrain, wsOnlyDrain>>
    /\ UNCHANGED lifeVars
    /\ UNCHANGED startVars
    /\ UNCHANGED netVars
    /\ UNCHANGED exitVars

\* `if (wsServer)`: ws.close(1001, ...) on every client, then
\* wsServer.close(cb), whose callback waits for the clients to be gone.
DrainWs ==
    /\ Alive
    /\ shutdownPc = "ws"
    /\ IF wsServer # "null"
       THEN /\ notified' = notified \union Clients
            /\ wsServer' = "closing"
            /\ drainLog' = Append(drainLog, "ws_close")
            /\ shutdownPc' = "await_ws_close"
       ELSE /\ shutdownPc' = "telemetry"
            /\ UNCHANGED <<notified, wsServer, drainLog>>
    /\ UNCHANGED <<requestVars, buildVars, pureVars>>
    /\ UNCHANGED <<cfg, isShuttingDown, server, sdk, lastProbe, triggers,
                   forceShutdownTimer, firstSignal, timersArmed, closeCalls,
                   sdkShutdownCalls, elapsed, stepThrew, inFlightAtDrain,
                   wsOnlyDrain, conn, acceptedDraining>>
    /\ UNCHANGED startVars
    /\ UNCHANGED exitVars

\* A call of the upgrade-channel step throws: control goes to the catch
\* block of gracefulShutdown.
DrainWsThrows ==
    /\ Alive
    /\ shutdownPc = "ws"
    /\ wsServer # "null"
    /\ stepThrew' = stepThrew \union {"ws"}
    /\ shutdownPc' = "catch"
    /\ UNCHANGED <<requestVars, buildVars, pureVars>>
    /\ UNCHANGED <<cfg, lastProbe, triggers, forceShutdownTimer, drainLog,
                   firstSignal, timersArmed, closeCalls, sdkShutdownCalls,
                   elapsed, inFlightAtDrain, wsOnlyDrain>>
    /\ UNCHANGED lifeVars
    /\ UNCHANGED startVars
    /\ UNCHANGED netVars
    /\ UNCHANGED exitVars

\* The callback of wsServer.close: no client is left.
WsClosed ==
    /\ Alive
    /\ shutdownPc = "await_ws_close"
    /\ Clients = {}
    /\ wsServer' = "closed"
    /\ drainLog' = Append(drainLog, "ws_closed")
    /\ shutdownPc' = "telemetry"
    /\ UNCHANGED <<requestVars, buildVars, pureVars>>
    /\ UNCHANGED <<cfg, isShuttingDown, server, sdk, lastProbe, triggers,
                   forceShutdownTimer, firstSignal, timersArmed, closeCalls,
                   sdkShutdownCalls, elapsed, stepThrew, inFlightAtDrain,
                   wsOnlyDrain>>
    /\ UNCHANGED startVars
    /\ UNCHANGED netVars
    /\ UNCHANGED exitVars

\* shutdownTelemetry(): `if (sdk)` it awaits sdk.shutdown(), else it
\* returns at once.
shutdownTelemetry ==
    IF sdk # "null"
    THEN /\ sdkShutdownCalls' = sdkShutdownCalls + 1
         /\ drainLog' = Append(drainLog, "telemetry_stop")
         /\ shutdownPc' = "await_sdk_shutdown"
    ELSE /\ shutdownPc' = "finish"
         /\ UNCHANGED <<sdkShutdownCalls, drainLog>>

\* `await shutdownTelemetry()`
DrainTelemetry ==
    /\ Alive
    /\ shutdownPc = "telemetry"
    /\ shutdownTelemetry
    /\ UNCHANGED <<requestVars, buildVars, pureVars>>
    /\ UNCHANGED <<cfg, lastProbe, triggers, forceShutdownTimer, firstSignal,
                   timersArmed, closeCalls, elapsed, stepThrew,
                   inFlightAtDrain, wsOnlyDrain>>
    /\ UNCHANGED lifeVars
    /\ UNCHANGED startVars
    /\ UNCHANGED netVars
    /\ UNCHANGED exitVars

\* sdk.shutdown() resolves.
SdkShutdownResolves ==
    /\ Quiescent
    /\ shutdownPc = "await_sdk_shutdown"
    /\ drainLog' = Append(drainLog, "telemetry_stopped")
    /\ shutdownPc' = "finish"
    /\ UNCHANGED <<requestVars, buildVars, pureVars>>
    /\ UNCHANGED <<cfg, lastProbe, triggers, forceShutdownTimer, firstSignal,
                   timersArmed, closeCalls, sdkShutdownCalls, elapsed,
                   stepThrew, inFlightAtDrain, wsOnlyDrain>>
    /\ UNCHANGED lifeVars
    /\ UNCHANGED startVars
    /\ UNCHANGED netVars
    /\ UNCHANGED exitVars

\* sdk.shutdown() rejects: the catch block of shutdownTelemetry logs the
\* error and shutdownTelemetry returns normally.
SdkShutdownRejects ==
    /\ Quiescent
    /\ shutdownPc = "await_sdk_shutdown"
    /\ stepThrew' = stepThrew \union {"telemetry"}
    /\ drainLog' = Append(drainLog, "telemetry_stopped")
    /\ shutdownPc' = "finish"
    /\ UNCHANGED <<requestVars, buildVars, pureVars>>
    /\ UNCHANGED <<cfg, lastProbe, triggers, forceShutdownTimer, firstSignal,
                   timersArmed, closeCalls, sdkShutdownCalls, elapsed,
                   inFlightAtDrain, wsOnlyDrain>>
    /\ UNCHANGED lifeVars
    /\ UNCHANGED startVars
    /\ UNCHANGED netVars
    /\ UNCHANGED exitVars

\* clearTimeout(forceShutdownTimer); process.exit(0)
DrainFinish ==
    /\ Alive
    /\ shutdownPc = "finish"
    /\ forceShutdownTimer' = -1
    /\ drainLog' = Append(drainLog, "clear_timeout")
    /\ shutdownPc' = "exited"
    /\ Exit(0, "drain")
    /\ UNCHANGED <<requestVars, buildVars, pureVars>>
    /\ UNCHANGED <<cfg, lastProbe, triggers, firstSignal, timersArmed,
                   closeCalls, sdkShutdownCalls, elapsed, stepThrew,
                   inFlightAtDrain, wsOnlyDrain>>
    /\ UNCHANGED lifeVars
    /\ UNCHANGED startVars
    /\ UNCHANGED netVars

\* catch (error): clearTimeout(forceShutdownTimer); process.exit(1)
DrainCatch ==
    /\ Alive
    /\ shutdownPc = "catch"
    /\ forceShutdownTimer' = -1
    /\ drainLog' = Append(drainLog, "clear_timeout")
    /\ shutdownPc' = "exited"
    /\ Exit(1, "catch")
    /\ UNCHANGED <<requestVars, buildVars, pureVars>>
    /\ UNCHANGED <<cfg, lastProbe, triggers, firstSignal, timersArmed,
                   closeCalls, sdkShutdownCalls, elapsed, stepThrew,
                   inFlightAtDrain, wsOnlyDrain>>
    /\ UNCHANGED lifeVars
    /\ UNCHANGED startVars
    /\ UNCHANGED netVars

\* A variant of the timer that may fire as soon as it is armed.
forceShutdownDue_early == forceShutdownTimer >= 0

\* The timer set with config.gracefulShutdownTimeout is due.
forceShutdownDue == forceShutdownTimer = 0

\* Time passes while the armed timer runs.
Tick ==
    /\ Quiescent
    /\ forceShutdownTimer > 0
    /\ forceShutdownTimer' = forceShutdownTimer - 1
    /\ elapsed' = elapsed + 1
    /\ UNCHANGED <<requestVars, buildVars, pureVars>>
    /\ UNCHANGED <<cfg, lastProbe, triggers, shutdownPc, drainLog,
                   firstSignal, timersArmed, closeCalls, sdkShutdownCalls,
                   stepThrew, inFlightAtDrain, wsOnlyDrain>>
    /\ UNCHANGED lifeVars
    /\ UNCHANGED startVars
    /\ UNCHANGED netVars
    /\ UNCHANGED exitVars

\* The callback of forceShutdownTimer: process.exit(1)
ForceShutdown ==
    /\ Quiescent
    /\ forceShutdownDue
    /\ Exit(1, "deadline")
    /\ UNCHANGED <<requestVars, buildVars, pureVars>>
    /\ UNCHANGED <<cfg, lastProbe, triggers>>
    /\ UNCHANGED lifeVars
    /\ UNCHANGED startVars
    /\ UNCHANGED drainVars
    /\ UNCHANGED netVars


\* -------------------------------------------------------- request pipeline
\* A variant of the liveness probe that does not look at the flag.
health_alwaysOk(shuttingDown) == [status |-> 200, body |-> "OK"]

\* app.get('/health'): 503 'Shutting down' while the flag is set, else 200.
health(shuttingDown) ==
    IF shuttingDown
    THEN [status |-> 503, body |-> "Shutting down"]
    ELSE [status |-> 200, body |-> "OK"]

\* A variant of the readiness probe that does not look at the flag.
readiness_alwaysReady(shuttingDown) == [status |-> 200, body |-> "ready"]

\* app.get('/readiness'): 503 {status: 'not ready', reason: 'shutting down'}
\* while the flag is set, else 200 {status: 'ready'}.
readiness(shuttingDown) ==
    IF shuttingDown
    THEN [status |-> 503, body |-> "not ready: shutting down"]
    ELSE [status |-> 200, body |-> "ready"]

\* What a probe handler wrote, with whether a trigger had been delivered.
Answer(path, res) ==
    [path |-> path, status |-> res.status, body |-> res.body,
     triggered |-> triggers > 0]

\* The listener accepts a transport connection.
Accept(c) ==
    /\ Quiescent
    /\ server = "listening"
    /\ conn[c] = "closed"
    /\ conn' = [conn EXCEPT ![c] = "idle"]
    /\ acceptedDraining' = (acceptedDraining \/ isShuttingDown)
    /\ UNCHANGED <<requestVars, buildVars, pureVars>>
    /\ UNCHANGED <<cfg, lastProbe, triggers, notified>>
    /\ UNCHANGED lifeVars
    /\ UNCHANGED startVars
    /\ UNCHANGED drainVars
    /\ UNCHANGED exitVars

\* GET /health on an open connection: answered by the handler at once.
HealthRequest(c) ==
    /\ Quiescent
    /\ cfg.healthCheck
    /\ conn[c] = "idle"
    /\ lastProbe' = Answer("/health", health(isShuttingDown))
    /\ UNCHANGED <<requestVars, buildVars, pureVars>>
    /\ UNCHANGED <<cfg, triggers>>
    /\ UNCHANGED lifeVars
    /\ UNCHANGED startVars
    /\ UNCHANGED drainVars
    /\ UNCHANGED netVars
    /\ UNCHANGED exitVars

\* GET /readiness on an open connection.
ReadinessRequest(c) ==
    /\ Quiescent
    /\ cfg.healthCheck
    /\ conn[c] = "idle"
    /\ lastProbe' = Answer("/readiness", readiness(isShuttingDown))
    /\ UNCHANGED <<requestVars, buildVars, pureVars>>
    /\ UNCHANGED <<cfg, triggers>>
    /\ UNCHANGED lifeVars
    /\ UNCHANGED startVars
    /\ UNCHANGED drainVars
    /\ UNCHANGED netVars
    /\ UNCHANGED exitVars

\* Any other request: it goes down the chain to the application handler
\* and is in flight until its response has been written.
AppRequest(c) ==
    /\ Quiescent
    /\ conn[c] = "idle"
    /\ conn' = [conn EXCEPT ![c] = "busy"]
    /\ UNCHANGED <<requestVars, buildVars, pureVars>>
    /\ UNCHANGED <<cfg, lastProbe, triggers, notified, acceptedDraining>>
    /\ UNCHANGED lifeVars
    /\ UNCHANGED startVars
    /\ UNCHANGED drainVars
    /\ UNCHANGED exitVars

\* The response of an in-flight request has been written.
FinishRequest(c) ==
    /\ Quiescent
    /\ conn[c] = "busy"
    /\ conn' = [conn EXCEPT ![c] = "idle"]
    /\ inFlightAtDrain' = inFlightAtDrain \ {c}
    /\ UNCHANGED <<requestVars, buildVars, pureVars>>
    /\ UNCHANGED <<cfg, lastProbe, triggers, notified, acceptedDraining,
                   shutdownPc, forceShutdownTimer, drainLog, firstSignal,
                   timersArmed, closeCalls, sdkShutdownCalls, elapsed,
                   stepThrew, wsOnlyDrain>>
    /\ UNCHANGED lifeVars
    /\ UNCHANGED startVars
    /\ UNCHANGED exitVars

\* A protocol upgrade on the configured path: the connection becomes a
\* client of wsServer.
Upgrade(c) ==
    /\ Quiescent
    /\ wsServer = "open"
    /\ conn[c] = "idle"
    /\ conn' = [conn EXCEPT ![c] = "ws"]
    /\ UNCHANGED <<requestVars, buildVars, pureVars>>
    /\ UNCHANGED <<cfg, lastProbe, triggers, notified, acceptedDraining>>
    /\ UNCHANGED lifeVars
    /\ UNCHANGED startVars
    /\ UNCHANGED drainVars
    /\ UNCHANGED exitVars

\* An idle or upgraded connection ends: the peer closes it (for an
\* upgraded one, of its own accord or in answer to close(1001)), or it is
\* closed as an idle keep-alive connection.
ConnClosed(c) ==
    /\ Quiescent
    /\ conn[c] \in {"idle", "ws"}
    /\ conn' = [conn EXCEPT ![c] = "closed"]
    /\ wsOnlyDrain' = (wsOnlyDrain /\ c \in notified)
    /\ UNCHANGED <<requestVars, buildVars, pureVars>>
    /\ UNCHANGED <<cfg, lastProbe, triggers, notified, acceptedDraining,
                   shutdownPc, forceShutdownTimer, drainLog, firstSignal,
                   timersArmed, closeCalls, sdkShutdownCalls, elapsed,
                   stepThrew, inFlightAtDrain>>
    /\ UNCHANGED lifeVars
    /\ UNCHANGED startVars
    /\ UNCHANGED exitVars

\* ---------------------------------------------------------- specification
\* The continuations the event loop runs as soon as they are ready.
Continue ==
    \/ InitTelemetryDisabled
    \/ BindError
    \/ DrainServer
    \/ ServerClosed
    \/ DrainWs
    \/ DrainWsThrows
    \/ WsClosed
    \/ DrainTelemetry
    \/ DrainFinish
    \/ DrainCatch

Next ==
    \/ InitTelemetryDisabled
    \/ InitTelemetryConstruct
    \/ InitTelemetryImportFails
    \/ InitTelemetryStarted
    \/ InitTelemetryStartFails
    \/ \E signal \in Signals : Trigger(signal)
    \/ BindError
    \/ DrainServer
    \/ ServerClosed
    \/ DrainWs
    \/ DrainWsThrows
    \/ WsClosed
    \/ DrainTelemetry
    \/ SdkShutdownResolves
    \/ SdkShutdownRejects
    \/ DrainFinish
    \/ DrainCatch
    \/ Tick
    \/ ForceShutdown
    \/ \E c \in ConnIds : Accept(c)
    \/ \E c \in ConnIds : HealthRequest(c)
    \/ \E c \in ConnIds : ReadinessRequest(c)
    \/ \E c \in ConnIds : AppRequest(c)
    \/ \E c \in ConnIds : FinishRequest(c)
    \/ \E c \in ConnIds : Upgrade(c)
    \/ \E c \in ConnIds : ConnClosed(c)

Spec == Init /\ [][Next]_vars

\* The event loop runs every ready continuation, time passes, and a due
\* timer fires.  Nothing is assumed of the peers, of in-flight requests or
\* of the telemetry SDK: any of them may never answer.
FairSpec ==
    /\ Spec
    /\ WF_vars(Continue)
    /\ WF_vars(Tick)
    /\ WF_vars(ForceShutdown)

Exited == exitCode # -1


\* ---------------------------------------------------------- handler chain
\* One request on an accepted connection of a process that is serving.
Methods == {"GET", "POST", "PUT", "PATCH", "DELETE"}

\* /health and /readiness, a file of the client directory, a prerendered
\* page, and a path only the application answers.
Paths == {"/health", "/readiness", "/asset", "/page", "/api"}

ContentTypes ==
    {"application/json", "application/json; charset=utf-8",
     "application/x-www-form-urlencoded", "text/plain", ""}

\* What a chunk of the body holds: text that parses or text that does not.
Texts == {"valid", "invalid"}

\* A variant that finds every substring in every content type.
includes_any(contentType, sub) == TRUE

\* contentType.includes(sub), for the header values above.
includes(contentType, sub) ==
    CASE sub = "application/json" ->
            contentType \in
                {"application/json", "application/json; charset=utf-8"}
      [] sub = "application/x-www-form-urlencoded" ->
            contentType = "application/x-www-form-urlencoded"
      [] OTHER -> FALSE

\* A registration that puts the body parser behind the static responders.
handlers_bodyParserLate ==
    <<"probes", "compression", "static client", "static prerendered",
      "bodyParser", "app">>

\* The handlers start() registers on the app, in the order of its app.get
\* and app.use calls; the probes only with config.healthCheck.enabled.
handlers ==
    IF cfg.healthCheck
    THEN <<"probes", "compression", "bodyParser", "static client",
           "static prerendered", "app">>
    ELSE <<"compression", "bodyParser", "static client",
           "static prerendered", "app">>

\* next(): the handler registered after h, "unmatched" behind the last.
nextHandler(h) ==
    LET i == CHOOSE k \in 1..Len(handlers) : handlers[k] = h
    IN  IF i < Len(handlers) THEN handlers[i + 1] ELSE "unmatched"

\* A variant in which the exception sets the shutdown flag and nothing
\* of the drain.
uncaughtException_flagOnly ==
    /\ triggers' = triggers + 1
    /\ isShuttingDown' = TRUE
    /\ UNCHANGED drainVars
    /\ UNCHANGED <<cfg, server, wsServer, sdk, lastProbe>>
    /\ UNCHANGED startVars
    /\ UNCHANGED netVars
    /\ UNCHANGED exitVars

\* The process-level 'uncaughtException' handler: an exception left a
\* callback of the event loop.
uncaughtException ==
    /\ triggers' = triggers + 1
    /\ gracefulShutdown("UNCAUGHT_EXCEPTION")
    /\ UNCHANGED <<cfg, server, wsServer, sdk, lastProbe>>
    /\ UNCHANGED startVars
    /\ UNCHANGED netVars
    /\ UNCHANGED exitVars

\* res.writeHead(status, ...); res.end(...) in a callback.  writeHead
\* throws when the response already has its header.
respond(status) ==
    IF resWrites # <<>>
    THEN /\ uncaughtException
         /\ UNCHANGED <<resWrites, stage>>
    ELSE /\ resWrites' = Append(resWrites, status)
         /\ stage' = "answered"
         /\ UNCHANGED vars

\* A request reaches the app: the first registered handler is next.
Request(method, path, contentType) ==
    /\ UNCHANGED <<buildVars, pureVars, channelVars>>
    /\ Alive
    /\ server = "listening"
    /\ stage = "none"
    /\ ws = "none"
    /\ req' = [method |-> method, path |-> path,
               contentType |-> contentType, body |-> "unset"]
    /\ stage' = handlers[1]
    /\ UNCHANGED <<reached, limitBytes, size, data, listeners, stream,
                   arrived, chunks, resWrites, nextCalls>>
    /\ UNCHANGED vars

\* app.get('/health', ...) and app.get('/readiness', ...)
Probes ==
    /\ UNCHANGED <<buildVars, pureVars, channelVars>>
    /\ stage = "probes"
    /\ IF req.method = "GET" /\ req.path \in {"/health", "/readiness"}
       THEN /\ reached' = Append(reached, "probes")
            /\ resWrites' =
                   Append(resWrites,
                          IF req.path = "/health"
                          THEN health(isShuttingDown).status
                          ELSE readiness(isShuttingDown).status)
            /\ stage' = "answered"
       ELSE /\ stage' = nextHandler("probes")
            /\ UNCHANGED <<reached, resWrites>>
    /\ UNCHANGED <<req, limitBytes, size, data, listeners, stream, arrived,
                   chunks, nextCalls>>
    /\ UNCHANGED vars

\* createCompressionMiddleware(): the pass-through and compression(...)
\* both call next() at once.
Compression ==
    /\ UNCHANGED <<buildVars, pureVars, channelVars>>
    /\ stage = "compression"
    /\ reached' = Append(reached, "compression")
    /\ stage' = nextHandler("compression")
    /\ UNCHANGED <<req, limitBytes, size, data, listeners, stream, arrived,
                   chunks, resWrites, nextCalls>>
    /\ UNCHANGED vars

\* A variant of the size test that rejects a body of exactly the limit.
overLimit_atLimit(sz, limit) == sz >= limit

\* size > limitBytes
overLimit(sz, limit) == sz > limit

\* A variant of the parse step that accepts any text.
parse_lenient(contentType, d) == "value"

\* The try block of the 'end' listener: JSON.parse(data), or {} for no
\* data, or parseUrlEncoded(data); a value, or a thrown error.
parse(contentType, d) ==
    IF \E i \in 1..Len(d) : d[i] = "invalid" THEN "throws" ELSE "value"

\* The body parser up to its return: it passes the request on, or attaches
\* its three listeners, which starts the flow of the body stream.
bodyParser ==
    /\ UNCHANGED <<buildVars, pureVars, channelVars>>
    /\ stage = "bodyParser"
    /\ reached' = Append(reached, "bodyParser")
    /\ IF \/ req.method \notin {"POST", "PUT", "PATCH"}
          \/ req.body # "unset"
          \/ /\ ~includes(req.contentType, "application/json")
             /\ ~includes(req.contentType,
                          "application/x-www-form-urlencoded")
       THEN /\ nextCalls' = nextCalls + 1
            /\ stage' = nextHandler("bodyParser")
            /\ UNCHANGED <<size, data, listeners, stream>>
       ELSE /\ size' = 0
            /\ data' = <<>>
            /\ listeners' = {"data", "end", "error"}
            /\ stream' = "flowing"
            /\ stage' = "reading"
            /\ UNCHANGED nextCalls
    /\ UNCHANGED <<req, limitBytes, arrived, chunks, resWrites>>
    /\ UNCHANGED vars

\* The body stream emits 'data': a chunk of len bytes.  Without a 'data'
\* listener the chunk is dropped.
onData(len, text) ==
    /\ UNCHANGED <<buildVars, pureVars, channelVars>>
    /\ stream = "flowing"
    /\ chunks < MaxChunks
    /\ chunks' = chunks + 1
    /\ arrived' = arrived + len
    /\ IF "data" \in listeners
       THEN /\ size' = size + len
            /\ IF overLimit(size + len, limitBytes)
               THEN /\ listeners' = listeners \ {"data", "end"}
                    /\ respond(413)
                    /\ UNCHANGED data
               ELSE /\ data' = Append(data, text)
                    /\ UNCHANGED <<listeners, resWrites, stage>>
                    /\ UNCHANGED vars
       ELSE /\ UNCHANGED <<size, data, listeners, resWrites, stage>>
            /\ UNCHANGED vars
    /\ UNCHANGED <<req, reached, limitBytes, stream, nextCalls>>

\* The body stream emits 'end': the whole body has arrived.
onEnd ==
    /\ UNCHANGED <<buildVars, pureVars, channelVars>>
    /\ stream = "flowing"
    /\ stream' = "ended"
    /\ IF "end" \in listeners
       THEN IF parse(req.contentType, data) = "throws"
            THEN /\ respond(400)
                 /\ UNCHANGED <<req, nextCalls>>
            ELSE /\ req' = [req EXCEPT !.body = "parsed"]
                 /\ nextCalls' = nextCalls + 1
                 /\ stage' = nextHandler("bodyParser")
                 /\ UNCHANGED resWrites
                 /\ UNCHANGED vars
       ELSE /\ UNCHANGED <<req, nextCalls, stage, resWrites>>
            /\ UNCHANGED vars
    /\ UNCHANGED <<reached, limitBytes, size, data, listeners, arrived,
                   chunks>>

\* The body stream emits 'error' before its end (the peer went away).  The
\* 'error' listener is never removed.
onError ==
    /\ UNCHANGED <<buildVars, pureVars, channelVars>>
    /\ stream = "flowing"
    /\ stream' = "errored"
    /\ "error" \in listeners
    /\ respond(400)
    /\ UNCHANGED <<req, reached, limitBytes, size, data, listeners, arrived,
                   chunks, nextCalls>>

\* createStaticMiddleware('client', true): a file of the directory is
\* answered, anything else is passed on.
StaticClient ==
    /\ UNCHANGED <<buildVars, pureVars, channelVars>>
    /\ stage = "static client"
    /\ reached' = Append(reached, "static client")
    /\ IF req.method = "GET" /\ req.path = "/asset"
       THEN /\ resWrites' = Append(resWrites, 200)
            /\ stage' = "answered"
       ELSE /\ stage' = nextHandler("static client")
            /\ UNCHANGED resWrites
    /\ UNCHANGED <<req, limitBytes, size, data, listeners, stream, arrived,
                   chunks, nextCalls>>
    /\ UNCHANGED vars

\* createStaticMiddleware('prerendered', false)
StaticPrerendered ==
    /\ UNCHANGED <<buildVars, pureVars, channelVars>>
    /\ stage = "static prerendered"
    /\ reached' = Append(reached, "static prerendered")
    /\ IF req.method = "GET" /\ req.path = "/page"
       THEN /\ resWrites' = Append(resWrites, 200)
            /\ stage' = "answered"
       ELSE /\ stage' = nextHandler("static prerendered")
            /\ UNCHANGED resWrites
    /\ UNCHANGED <<req, limitBytes, size, data, listeners, stream, arrived,
                   chunks, nextCalls>>
    /\ UNCHANGED vars

\* app.use((req, res) => handler(req, res)): the application answers and
\* never calls next.
App ==
    /\ UNCHANGED <<buildVars, pureVars, channelVars>>
    /\ stage = "app"
    /\ reached' = Append(reached, "app")
    /\ resWrites' = Append(resWrites, 200)
    /\ stage' = "answered"
    /\ UNCHANGED <<req, limitBytes, size, data, listeners, stream, arrived,
                   chunks, nextCalls>>
    /\ UNCHANGED vars

\* The process serves: start() has returned with telemetry disabled, the
\* listener is bound, connection 1 carries the request.
\* A variant of the message handler without its try and catch: every
\* message is echoed.
reply_echoOnly(text) == "echo"

\* The type of the message the 'message' handler sends: JSON.parse throws
\* on a text that is not JSON and the catch block sends the error message.
reply(text) == IF text = "valid" THEN "echo" ELSE "error"

\* wsServer.on('connection', ...): a client has upgraded on the last
\* connection; the listeners are attached and the welcome message is
\* sent.  A behaviour follows one client: a request or a channel.
connection ==
    /\ Alive
    /\ wsServer = "open"
    /\ stage = "none"
    /\ ws = "none"
    /\ conn[MaxConns] = "closed"
    /\ conn' = [conn EXCEPT ![MaxConns] = "ws"]
    /\ ws' = "open"
    /\ wsSent' = Append(wsSent, "connected")
    /\ UNCHANGED <<req, stage, reached, limitBytes, size, data, listeners,
                   stream, arrived, chunks, resWrites, nextCalls,
                   wsMessages>>
    /\ UNCHANGED <<buildVars, pureVars>>
    /\ UNCHANGED <<cfg, lastProbe, triggers, notified, acceptedDraining>>
    /\ UNCHANGED lifeVars
    /\ UNCHANGED startVars
    /\ UNCHANGED drainVars
    /\ UNCHANGED exitVars

\* ws.on('message', (data) => ...): one message, answered by one send.
onMessage(text) ==
    /\ ws = "open"
    /\ Len(wsMessages) < MaxMessages
    /\ wsMessages' = Append(wsMessages, text)
    /\ wsSent' = Append(wsSent, reply(text))
    /\ UNCHANGED <<req, stage, reached, limitBytes, size, data, listeners,
                   stream, arrived, chunks, resWrites, nextCalls, ws>>
    /\ UNCHANGED <<buildVars, pureVars>>
    /\ UNCHANGED vars

\* ws.on('close', ...): the client has closed the socket; the handler
\* logs.
onClose ==
    /\ ws = "open"
    /\ ws' = "closed"
    /\ conn' = [conn EXCEPT ![MaxConns] = "closed"]
    /\ UNCHANGED <<req, stage, reached, limitBytes, size, data, listeners,
                   stream, arrived, chunks, resWrites, nextCalls,
                   wsMessages, wsSent>>
    /\ UNCHANGED <<buildVars, pureVars>>
    /\ UNCHANGED <<cfg, lastProbe, triggers, notified, acceptedDraining>>
    /\ UNCHANGED lifeVars
    /\ UNCHANGED startVars
    /\ UNCHANGED drainVars
    /\ UNCHANGED exitVars

Serving ==
    /\ cfg \in {c \in Configs : ~c.telemetry /\ c.port = "free"}
    /\ isShuttingDown = FALSE
    /\ server = "listening"
    /\ wsServer = IF cfg.websocket THEN "open" ELSE "null"
    /\ sdk = "null"
    /\ startPc = "done"
    /\ shutdownPc = "idle"
    /\ pendingError = FALSE
    /\ forceShutdownTimer = -1
    /\ conn = [c \in ConnIds |-> IF c = 1 THEN "busy" ELSE "closed"]
    /\ notified = {}
    /\ exitCode = -1
    /\ exitBy = "none"
    /\ lastProbe = NoProbe
    /\ drainLog = <<>>
    /\ triggers = 0
    /\ firstSignal = "none"
    /\ timersArmed = 0
    /\ closeCalls = 0
    /\ sdkShutdownCalls = 0
    /\ elapsed = 0
    /\ telemetryInit = "disabled"
    /\ stepThrew = {}
    /\ bindFailed = FALSE
    /\ acceptedDraining = FALSE
    /\ inFlightAtDrain = {}
    /\ wsOnlyDrain = FALSE

RequestInit ==
    /\ Serving
    /\ RequestIdle
    /\ BuildIdle
    /\ MatchIdle
    /\ LimitIdle
    /\ ResponseIdle
    /\ limitBytes \in 1..MaxLimit

RequestNext ==
    \/ \E method \in Methods, path \in Paths, contentType \in ContentTypes :
           Request(method, path, contentType)
    \/ Probes
    \/ Compression
    \/ bodyParser
    \/ \E len \in 1..MaxChunkLen, text \in Texts : onData(len, text)
    \/ onEnd
    \/ onError
    \/ StaticClient
    \/ StaticPrerendered
    \/ App
    \/ connection
    \/ \E text \in Texts : onMessage(text)
    \/ onClose

RequestSpec ==
    RequestInit /\ [][RequestNext]_<<vars, requestVars, buildVars>>


\* ------------------------------------------------------------------ build
\* The versions of the adapter: src/index.js, the one that also keeps the
\* telemetry packages external, and the one with the bundleAll option and
\* a single bundling pass.
Variants == {"index.js", "part_000", "part_001"}

TwoPass == variant \in {"index.js", "part_000"}

\* const builtins, by three of its names.
builtins == {"fs", "path", "http"}

\* const runtimeDeps
runtimeDeps == {"polka", "sirv", "@polka/url"}

\* const otelPackages, by two of its names.
otelPackages == {"@opentelemetry/api", "@opentelemetry/sdk-node"}

\* Names a project declares: a package of its own and one the runtime
\* needs as well.
UserPackages == {"lodash", "polka"}

\* Names a user rule gives: a package the runtime files import and the
\* adapter of src/index.js does not list, and one it lists.
RuleNames == {"compression", "polka"}

\* [...name]: spreading a string gives its characters.
characters(name) ==
    CASE name = "compression" ->
             {"c", "o", "m", "p", "r", "e", "s", "i", "n"}
      [] name = "polka" -> {"p", "o", "l", "k", "a"}

\* The `external` option: absent, an array of names, or a function of pkg.
\* The function returns an array of names, returns one name as a string,
\* returns undefined, or throws.
Externals ==
    [kind : {"none"}, names : {{}}, result : {"names"}]
        \cup [kind : {"list", "function"}, names : SUBSET RuleNames,
               result : {"names"}]
        \cup [kind : {"function"}, names : {{n} : n \in RuleNames},
               result : {"string"}]
        \cup [kind : {"function"}, names : {{}},
               result : {"throws", "undefined"}]

\* The `rolldownOptions` option: absent, with resolve options of its own,
\* with module paths of its own, with an `external` of its own.
RolldownOptions ==
    {EmptyObject,
     [resolve |-> [alias |-> "$lib"]],
     [resolve |-> [modulePaths |-> <<"vendor">>]],
     [external |-> {[kind |-> "name", name |-> "lodash"]}]}

\* The options of the adapter factory that the build reads.
AdapterOptions ==
    [bundleAll : BOOLEAN, external : Externals, telemetry : BOOLEAN,
     websocket : BOOLEAN, rolldownOptions : RolldownOptions]

\* package.json of the project, by the names it declares.
Manifests ==
    [dependencies : SUBSET UserPackages,
     devDependencies : SUBSET {"@opentelemetry/api"}]

\* Version v reads the `external` option: the one-pass version does not
\* when bundleAll is set.
readsExternal(v, o) == v = "part_001" => ~o.bundleAll

\* external(pkg) throws, or its result cannot be spread into an array.
externalThrows(v, o) ==
    /\ readsExternal(v, o)
    /\ o.external.kind = "function"
    /\ o.external.result \in {"throws", "undefined"}

\* The names taken from the `external` option, or from pkg.dependencies
\* when the option is neither a function nor an array: [...external(pkg)],
\* [...external], Object.keys(pkg.dependencies || {}).
userExternal(o, p) ==
    IF o.external.kind \in {"function", "list"}
    THEN IF o.external.result = "string"
         THEN UNION {characters(n) : n \in o.external.names}
         ELSE o.external.names
    ELSE p.dependencies

\* let externalPackages, after the if chain, in version v.
externalPackages(v, o, p) ==
    CASE v = "index.js" -> runtimeDeps \cup userExternal(o, p)
      [] v = "part_000" ->
            runtimeDeps \cup otelPackages \cup userExternal(o, p)
      [] v = "part_001" ->
            IF o.bundleAll THEN {} ELSE userExternal(o, p)

\* A variant that leaves the built-in modules out.
allExternal_noBuiltins(v, o, p) == externalPackages(v, o, p)

\* const allExternal = [...new Set([...builtins, ...externalPackages])]
allExternal(v, o, p) == builtins \cup externalPackages(v, o, p)

\* new RegExp(`^(node:)?${d}(\/.*)?$`), one for every name.
compile(names) == {[kind |-> "name", name |-> d] : d \in names}

\* /^\.\/server\//
serverRule == [kind |-> "dir", name |-> "./server"]

\* A variant of Pass 2's rules without the rule for Pass 1's output.
runtimeRules_noServerRule(patterns) == patterns

\* const runtimeExternalPatterns = [...externalPatterns, /^\.\/server\//]
runtimeRules(patterns) == patterns \cup {serverRule}

\* An import reference: an optional node: scheme, a name, and a tail that
\* is empty or begins with "/".
References ==
    [scheme : BOOLEAN,
     name : builtins \cup runtimeDeps \cup UserPackages \cup RuleNames
                \cup {"./server"},
     tail : {"", "/index.js", "/manifest.js"}]

\* rule.test(ref)
test(rule, ref) ==
    IF rule.kind = "name"
    THEN ref.name = rule.name
    ELSE ~ref.scheme /\ ref.name = rule.name /\ ref.tail # ""

\* The bundler keeps ref external under the rules.
external(rules, ref) == \E rule \in rules : test(rule, ref)

\* The imports of the runtime files into Pass 1's output directory, as the
\* replace map of builder.copy writes them: SERVER and MANIFEST.
ServerImports ==
    {[scheme |-> FALSE, name |-> "./server", tail |-> t] :
        t \in {"/index.js", "/manifest.js"}}

\* A variant of rimraf that leaves the directory as it is.
rimraf_keep(dir) == dir

\* builder.rimraf(dir): the directory is empty afterwards.
rimraf(dir) == {}

\* A variant of `await` that resumes while the write is still going on.
awaited_early(pass) == pass \in {"writing", "written"}

\* `await bundle.write(...)` resumes once the write has completed.
awaited(pass) == pass = "written"

\* adapt() rejects: the exception leaves the async function.
reject ==
    /\ buildPc' = "rejected"

\* The names of an object's keys, each with the place its range is from.
ranges(names, from) == [n \in names |-> from]

\* const adapterDeps of the one-pass version, with the ws and telemetry
\* blocks.
adapterDeps(o) ==
    ranges(runtimeDeps \cup {"compression"}
               \cup (IF o.websocket THEN {"ws"} ELSE {})
               \cup (IF o.telemetry THEN otelPackages ELSE {}),
           "pinned")

\* const allUserDeps = {...pkg.dependencies, ...pkg.devDependencies}
allUserDeps(p) ==
    spread(ranges(p.dependencies, "dependencies"),
           ranges(p.devDependencies, "devDependencies"))

\* A variant that writes the project's dependencies and nothing else.
finalDeps_userOnly(v, o, p) == ranges(p.dependencies, "dependencies")

\* const finalDeps in version v: every key with where its range is from,
\* the adapter's pin or the project's package.json.
finalDeps(v, o, p) ==
    LET pinsThenUser ==
            spread(ranges(runtimeDeps, "pinned"),
                   ranges(p.dependencies, "dependencies"))
        used ==
            {n \in otelPackages :
                n \in DOMAIN allUserDeps(p) /\ n \notin DOMAIN pinsThenUser}
    IN  CASE v = "index.js" -> pinsThenUser
          [] v = "part_000" ->
                 [n \in used |-> allUserDeps(p)[n]] @@ pinsThenUser
          [] v = "part_001" ->
                 spread(ranges(p.dependencies, "dependencies"),
                        adapterDeps(o))

\* The directory of the adapter's own node_modules.
adapterModules == "adapter/node_modules"

\* The object handed to rolldown for Pass 2: external, resolve and cwd,
\* and then ...rolldownOptions.
runtimeOptions(rolldownOptions, rules) ==
    LET userResolve == get(rolldownOptions, "resolve", EmptyObject)
    IN  spread([external |-> rules,
                resolve |->
                    spread([conditionNames |-> <<"node", "import">>,
                            modulePaths |->
                                <<adapterModules>>
                                    \o get(userResolve, "modulePaths", <<>>)],
                           userResolve),
                cwd |-> "cwd"],
               rolldownOptions)

\* const input: the server entry, the manifest, and the instrumentation
\* entry when the builder reports an instrumentation file.
input(reported) ==
    {"index", "manifest"}
        \cup (IF reported THEN {"instrumentation.server"} ELSE {})

\* The object handed to rolldown for Pass 1: input, external, resolve and
\* cwd, and then ...rolldownOptions.
serverOptions(rolldownOptions, entries, rules) ==
    spread([input |-> entries,
            external |-> rules,
            resolve |->
                spread([conditionNames |-> <<"node", "import">>],
                       get(rolldownOptions, "resolve", EmptyObject)),
            cwd |-> "cwd"],
           rolldownOptions)

\* A variant that calls builder.instrument without asking the builder.
instrument_unasked(log) == Append(log, "instrument")

\* if (builder.hasServerInstrumentationFile?.()) builder.instrument?.(...)
instrument(log) ==
    IF hasServerInstrumentationFile THEN Append(log, "instrument") ELSE log

\* adapt(builder) up to its first await: the output directory is emptied,
\* the client and prerendered assets are written, compression starts.
\* The options are those the adapter was made with; reported is what the
\* builder answers about the instrumentation file during this build.
adapt(p, reported) ==
    /\ buildPc \in {"idle", "resolved", "rejected"}
    /\ builds < MaxBuilds
    /\ builds' = builds + 1
    /\ pkg' = p
    /\ hasServerInstrumentationFile' = reported
    /\ buildLog' = <<>>
    /\ pass1Options' = EmptyObject
    /\ outDir' = rimraf(outDir) \cup {"client", "prerendered"}
    /\ descriptor' = IF "package.json" \in rimraf(outDir)
                     THEN descriptor
                     ELSE EmptyObject
    /\ pass1' = "none"
    /\ pass2' = "none"
    /\ externalPatterns' = {}
    /\ runtimeExternalPatterns' = {}
    /\ pass2Options' = EmptyObject
    /\ buildPc' = "await_compress"
    /\ UNCHANGED <<variant, options, descriptorWrites>>
    /\ UNCHANGED <<vars, requestVars, pureVars>>

\* The compression of the assets is done: the server is written to tmp,
\* package.json is read, the rules are compiled and rolldown is called for
\* Pass 1.
Compressed ==
    /\ buildPc = "await_compress"
    /\ IF externalThrows(variant, options)
       THEN /\ reject
            /\ UNCHANGED <<externalPatterns, pass1, pass1Options>>
       ELSE /\ externalPatterns' =
                   compile(allExternal(variant, options, pkg))
            /\ pass1Options' =
                   serverOptions(options.rolldownOptions,
                                 input(hasServerInstrumentationFile),
                                 compile(allExternal(variant, options, pkg)))
            /\ pass1' = "bundling"
            /\ buildPc' = "await_pass1_bundle"
    /\ UNCHANGED <<variant, options, pkg, pass2, runtimeExternalPatterns,
                   outDir, builds, descriptorWrites, pass2Options,
                   descriptor, hasServerInstrumentationFile, buildLog>>
    /\ UNCHANGED <<vars, requestVars, pureVars>>

\* builder.compress rejects.
CompressFails ==
    /\ buildPc = "await_compress"
    /\ reject
    /\ UNCHANGED <<variant, options, pkg, pass1, pass2, externalPatterns,
                   runtimeExternalPatterns, outDir, builds,
                   descriptorWrites, pass2Options, descriptor, pass1Options,
                   hasServerInstrumentationFile, buildLog>>
    /\ UNCHANGED <<vars, requestVars, pureVars>>

\* `await rolldown({...})` of Pass 1 resolves: bundle.write is called.
Pass1Bundled ==
    /\ buildPc = "await_pass1_bundle"
    /\ pass1' = "writing"
    /\ buildPc' = "await_pass1_write"
    /\ UNCHANGED <<variant, options, pkg, pass2, externalPatterns,
                   runtimeExternalPatterns, outDir, builds,
                   descriptorWrites, pass2Options, descriptor, pass1Options,
                   hasServerInstrumentationFile, buildLog>>
    /\ UNCHANGED <<vars, requestVars, pureVars>>

\* rolldown rejects in Pass 1.
Pass1BundleFails ==
    /\ buildPc = "await_pass1_bundle"
    /\ pass1' = "failed"
    /\ reject
    /\ UNCHANGED <<variant, options, pkg, pass2, externalPatterns,
                   runtimeExternalPatterns, outDir, builds,
                   descriptorWrites, pass2Options, descriptor, pass1Options,
                   hasServerInstrumentationFile, buildLog>>
    /\ UNCHANGED <<vars, requestVars, pureVars>>

\* The write of Pass 1 completes: out/server holds the server bundle.
Pass1WriteCompletes ==
    /\ pass1 = "writing"
    /\ pass1' = "written"
    /\ outDir' = outDir \cup {"server"}
    /\ UNCHANGED <<variant, options, pkg, buildPc, pass2, externalPatterns,
                   runtimeExternalPatterns, builds, descriptorWrites,
                   pass2Options, descriptor, pass1Options,
                   hasServerInstrumentationFile, buildLog>>
    /\ UNCHANGED <<vars, requestVars, pureVars>>

\* The write of Pass 1 fails: `await bundle.write` throws.
Pass1WriteFails ==
    /\ buildPc = "await_pass1_write"
    /\ pass1 = "writing"
    /\ pass1' = "failed"
    /\ reject
    /\ UNCHANGED <<variant, options, pkg, pass2, externalPatterns,
                   runtimeExternalPatterns, outDir, builds,
                   descriptorWrites, pass2Options, descriptor, pass1Options,
                   hasServerInstrumentationFile, buildLog>>
    /\ UNCHANGED <<vars, requestVars, pureVars>>

\* The last step of adapt(): writeFileSync(`${out}/package.json`, ...)
writeDescriptor ==
    /\ outDir' = outDir \cup {"index.js", "package.json"}
    /\ descriptor' = finalDeps(variant, options, pkg)
    /\ descriptorWrites' = descriptorWrites + 1
    /\ buildPc' = "resolved"

\* adapt() resumes after `await bundle.write` of Pass 1.  With two passes
\* the runtime files are copied to tmp, Pass 2's rules are built and
\* rolldown is called for Pass 2; with one pass the runtime files are
\* copied to out and package.json is written.
AfterPass1Write ==
    /\ buildPc = "await_pass1_write"
    /\ awaited(pass1)
    /\ IF TwoPass
       THEN /\ runtimeExternalPatterns' = runtimeRules(externalPatterns)
            /\ pass2Options' =
                   runtimeOptions(options.rolldownOptions,
                                  runtimeRules(externalPatterns))
            /\ pass2' = "bundling"
            /\ buildPc' = "await_pass2_bundle"
            /\ UNCHANGED <<outDir, descriptorWrites, descriptor, buildLog>>
       ELSE /\ buildLog' = Append(instrument(buildLog), "package.json")
            /\ writeDescriptor
            /\ UNCHANGED <<runtimeExternalPatterns, pass2, pass2Options>>
    /\ UNCHANGED <<variant, options, pkg, pass1, externalPatterns, builds,
                   pass1Options, hasServerInstrumentationFile>>
    /\ UNCHANGED <<vars, requestVars, pureVars>>

\* `await rolldown({...})` of Pass 2 resolves: runtimeBundle.write is
\* called.
Pass2Bundled ==
    /\ buildPc = "await_pass2_bundle"
    /\ pass2' = "writing"
    /\ buildPc' = "await_pass2_write"
    /\ UNCHANGED <<variant, options, pkg, pass1, externalPatterns,
                   runtimeExternalPatterns, outDir, builds,
                   descriptorWrites, pass2Options, descriptor, pass1Options,
                   hasServerInstrumentationFile, buildLog>>
    /\ UNCHANGED <<vars, requestVars, pureVars>>

\* rolldown rejects in Pass 2.
Pass2BundleFails ==
    /\ buildPc = "await_pass2_bundle"
    /\ pass2' = "failed"
    /\ reject
    /\ UNCHANGED <<variant, options, pkg, pass1, externalPatterns,
                   runtimeExternalPatterns, outDir, builds,
                   descriptorWrites, pass2Options, descriptor, pass1Options,
                   hasServerInstrumentationFile, buildLog>>
    /\ UNCHANGED <<vars, requestVars, pureVars>>

\* The write of Pass 2 completes: out holds the entry of the runtime.
Pass2WriteCompletes ==
    /\ pass2 = "writing"
    /\ pass2' = "written"
    /\ outDir' = outDir \cup {"index.js"}
    /\ UNCHANGED <<variant, options, pkg, buildPc, pass1, externalPatterns,
                   runtimeExternalPatterns, builds, descriptorWrites,
                   pass2Options, descriptor, pass1Options,
                   hasServerInstrumentationFile, buildLog>>
    /\ UNCHANGED <<vars, requestVars, pureVars>>

\* The write of Pass 2 fails.
Pass2WriteFails ==
    /\ buildPc = "await_pass2_write"
    /\ pass2 = "writing"
    /\ pass2' = "failed"
    /\ reject
    /\ UNCHANGED <<variant, options, pkg, pass1, externalPatterns,
                   runtimeExternalPatterns, outDir, builds,
                   descriptorWrites, pass2Options, descriptor, pass1Options,
                   hasServerInstrumentationFile, buildLog>>
    /\ UNCHANGED <<vars, requestVars, pureVars>>

\* adapt() resumes after `await runtimeBundle.write`: package.json is
\* written and adapt() returns.
AfterPass2Write ==
    /\ buildPc = "await_pass2_write"
    /\ awaited(pass2)
    /\ buildLog' = Append(instrument(buildLog), "package.json")
    /\ writeDescriptor
    /\ UNCHANGED <<variant, options, pkg, pass1, pass2, externalPatterns,
                   runtimeExternalPatterns, builds, pass2Options,
                   pass1Options, hasServerInstrumentationFile>>
    /\ UNCHANGED <<vars, requestVars, pureVars>>

\* No process of the generated runtime exists at build time.
NoProcess ==
    /\ ProcessStart
    /\ cfg = [telemetry |-> FALSE, websocket |-> FALSE,
              healthCheck |-> FALSE, port |-> "free"]

BuildInit ==
    /\ NoProcess
    /\ RequestIdle
    /\ MatchIdle
    /\ LimitIdle
    /\ ResponseIdle
    /\ limitBytes = MaxLimit
    /\ variant \in Variants
    /\ options \in AdapterOptions
    /\ pkg = NoManifest
    /\ buildPc = "idle"
    /\ pass1 = "none"
    /\ pass2 = "none"
    /\ externalPatterns = {}
    /\ runtimeExternalPatterns = {}
    /\ outDir = {}
    /\ builds = 0
    /\ descriptorWrites = 0
    /\ descriptor = EmptyObject
    /\ pass2Options = EmptyObject
    /\ pass1Options = EmptyObject
    /\ hasServerInstrumentationFile = FALSE
    /\ buildLog = <<>>

BuildNext ==
    \/ \E p \in Manifests, reported \in BOOLEAN : adapt(p, reported)
    \/ Compressed
    \/ CompressFails
    \/ Pass1Bundled
    \/ Pass1BundleFails
    \/ Pass1WriteCompletes
    \/ Pass1WriteFails
    \/ AfterPass1Write
    \/ Pass2Bundled
    \/ Pass2BundleFails
    \/ Pass2WriteCompletes
    \/ Pass2WriteFails
    \/ AfterPass2Write

BuildSpec == BuildInit /\ [][BuildNext]_<<vars, requestVars, buildVars>>


\* ---------------------------------------------------------------- matcher
\* new RegExp(`^(node:)?${d.replace(/[.*+?^${}()|[\]\\]/g, '\\$&')}(\/.*)?$`)
\* for one name d, and its test on references.  A name and a reference are
\* sequences of characters; the scheme prefix "node:" counts as one.
NameChars == {"a", "b", "."}

RefChars == {"node:", "a", "b", ".", "/"}

\* The sequences over S of length lo to hi.
SeqsOf(S, lo, hi) == UNION {[1..n -> S] : n \in lo..hi}

Names == SeqsOf(NameChars, 1, MaxNameLen)

Refs == SeqsOf(RefChars, 0, MaxRefLen)

\* The characters of the class [.*+?^${}()|[\]\\].
Meta ==
    {".", "*", "+", "?", "^", "$", "{", "}", "(", ")", "|", "[", "]", "\\"}

\* A variant without the replace: the name goes into the source as it is.
escape_none(d) == d

\* d.replace(/[.*+?^${}()|[\]\\]/g, '\\$&'): a backslash before every
\* character of the class.
RECURSIVE escape(_)
escape(d) ==
    IF d = <<>>
    THEN <<>>
    ELSE (IF Head(d) \in Meta THEN <<"\\", Head(d)>> ELSE <<Head(d)>>)
             \o escape(Tail(d))

\* The source read as a RegExp reads it: a backslash makes the next
\* character a literal, a bare dot stands for any character, any other
\* character of the model's alphabet is a literal.
RECURSIVE atoms(_)
atoms(src) ==
    IF src = <<>>
    THEN <<>>
    ELSE IF Head(src) = "\\" /\ Len(src) > 1
         THEN <<[kind |-> "literal", ch |-> src[2]]>>
                  \o atoms(Tail(Tail(src)))
         ELSE IF Head(src) = "."
              THEN <<[kind |-> "any", ch |-> "."]>> \o atoms(Tail(src))
              ELSE <<[kind |-> "literal", ch |-> Head(src)]>>
                       \o atoms(Tail(src))

\* The atoms match the whole of s, one character each.
matchAtoms(as, s) ==
    /\ Len(s) = Len(as)
    /\ \A i \in 1..Len(as) : as[i].kind = "any" \/ as[i].ch = s[i]

\* RegExp.test: ^ (node:)? the escaped name (\/.*)? $
regExpTest(src, ref) ==
    \E skip \in {0, 1} :
        /\ skip = 1 => (Len(ref) >= 1 /\ ref[1] = "node:")
        /\ LET r == SubSeq(ref, skip + 1, Len(ref))
           IN  \E k \in 0..Len(r) :
                   /\ matchAtoms(atoms(src), SubSeq(r, 1, k))
                   /\ k = Len(r) \/ r[k + 1] = "/"

\* externalPatterns = allExternal.map(...): the RegExp of the name.
CompileName ==
    /\ rxName # <<>>
    /\ rxSource = <<>>
    /\ rxSource' = escape(rxName)
    /\ UNCHANGED <<rxName, rxRef, rxVerdict>>
    /\ UNCHANGED <<vars, requestVars, buildVars, limitVars, responseVars>>

\* The bundler asks whether a reference is external.
TestReference(ref) ==
    /\ rxSource # <<>>
    /\ rxVerdict = "none"
    /\ rxRef' = ref
    /\ rxVerdict' = IF regExpTest(rxSource, ref) THEN "accepts" ELSE "rejects"
    /\ UNCHANGED <<rxName, rxSource>>
    /\ UNCHANGED <<vars, requestVars, buildVars, limitVars, responseVars>>

MatcherInit ==
    /\ NoProcess
    /\ RequestIdle
    /\ limitBytes = MaxLimit
    /\ BuildIdle
    /\ rxName \in Names
    /\ rxSource = <<>>
    /\ rxRef = <<>>
    /\ rxVerdict = "none"
    /\ LimitIdle
    /\ ResponseIdle

MatcherNext ==
    \/ CompileName
    \/ \E ref \in Refs : TestReference(ref)

MatcherSpec == MatcherInit /\ [][MatcherNext]_matchVars


\* ------------------------------------------------------------- parseLimit
\* The characters of a limit string: a digit, the point, white space, and
\* the letters of the units, one of them in upper case.
LimitChars == {"1", ".", " ", "k", "M", "g", "b"}

LimitStrings == SeqsOf(LimitChars, 0, MaxLimitLen)

\* config.bodyLimit as a number.
LimitNumbers == {-1, 0, 1024}

\* config.bodyLimit: the adapter's bodyLimit option, a number or a string.
BodyLimits ==
    [kind : {"number"}, value : LimitNumbers]
        \cup [kind : {"string"}, value : LimitStrings]

\* A number of bytes, value * multiplier, kept as its factors (a product
\* with the gigabyte multiplier is beyond the integers of the checker);
\* the value is a whole number and the digits behind its point.
bytes(whole, fraction, multiplier) ==
    [whole |-> whole, fraction |-> fraction, multiplier |-> multiplier]

\* \d
isDigit(c) == c = "1"

\* The number of characters from position i on that satisfy the test.
RECURSIVE run(_, _, _)
run(s, i, digit) ==
    IF i <= Len(s) /\ (IF digit THEN isDigit(s[i]) ELSE s[i] = " ")
    THEN 1 + run(s, i + 1, digit)
    ELSE 0

\* The number a string of digits stands for.
RECURSIVE numeral(_)
numeral(ds) ==
    IF ds = <<>> THEN 0 ELSE 10 * numeral(SubSeq(ds, 1, Len(ds) - 1)) + 1

\* String.prototype.toLowerCase, for the characters above.
toLowerCase(s) == [i \in DOMAIN s |-> IF s[i] = "M" THEN "m" ELSE s[i]]

\* The units of the RegExp's second group.
unitsMatched == {<<"k", "b">>, <<"m", "b">>, <<"g", "b">>}

\* const multipliers
multipliers(unit) ==
    CASE unit = <<"b">> -> 1
      [] unit = <<"k", "b">> -> 1024
      [] unit = <<"m", "b">> -> 1024 * 1024
      [] unit = <<"g", "b">> -> 1024 * 1024 * 1024

\* limit.match(/^(\d+(?:\.\d+)?)\s*(kb|mb|gb)?$/i): <<>> for null, or the
\* groups of the match: the whole digits, the digits behind the point, the
\* unit as written (<<>> when the group did not take part).
match(s) ==
    LET n1 == run(s, 1, TRUE)
        point == /\ n1 + 1 <= Len(s)
                 /\ s[n1 + 1] = "."
                 /\ run(s, n1 + 2, TRUE) >= 1
        n2 == IF point THEN run(s, n1 + 2, TRUE) ELSE 0
        number == n1 + (IF point THEN 1 + n2 ELSE 0)
        space == run(s, number + 1, FALSE)
        rest == SubSeq(s, number + space + 1, Len(s))
    IN  IF n1 = 0 \/ (rest # <<>> /\ toLowerCase(rest) \notin unitsMatched)
        THEN <<>>
        ELSE <<[whole |-> SubSeq(s, 1, n1),
                fraction |-> SubSeq(s, n1 + 2, n1 + 1 + n2),
                unit |-> rest]>>

\* parseLimit(limit)
parseLimit(limit) ==
    IF limit.kind = "number"
    THEN bytes(limit.value, <<>>, 1)
    ELSE IF match(limit.value) = <<>>
         THEN bytes(10, <<>>, 1024 * 1024)
         ELSE LET groups == match(limit.value)[1]
                  unit == toLowerCase(IF groups.unit = <<>>
                                      THEN <<"b">>
                                      ELSE groups.unit)
              IN  bytes(numeral(groups.whole), groups.fraction,
                        multipliers(unit))

\* createBodyParser(): const limitBytes = parseLimit(config.bodyLimit)
createBodyParser ==
    /\ parsedLimit = <<>>
    /\ parsedLimit' = <<parseLimit(bodyLimit)>>
    /\ UNCHANGED bodyLimit
    /\ UNCHANGED <<vars, requestVars, buildVars, matchVars, responseVars>>

LimitInit ==
    /\ NoProcess
    /\ RequestIdle
    /\ limitBytes = MaxLimit
    /\ BuildIdle
    /\ MatchIdle
    /\ ResponseIdle
    /\ bodyLimit \in BodyLimits
    /\ parsedLimit = <<>>

LimitNext == createBodyParser

LimitSpec == LimitInit /\ [][LimitNext]_limitVars


\* ------------------------------------------------- responders and flush
\* A pathname is a sequence of words; the last one may be an extension.
Words == {"immutable", "about", ".html", ".js", ".svg"}

Pathnames == SeqsOf(Words, 1, MaxPathLen)

\* pathname.includes(word)
pathIncludes(pathname, word) == \E i \in DOMAIN pathname : pathname[i] = word

\* pathname.endsWith(word)
endsWith(pathname, word) == pathname[Len(pathname)] = word

\* The value of Content-Type, <<type, subtype>>, or <<>> when there is none.
ResponseTypes ==
    {<<"text", "html">>, <<"text", "javascript">>, <<"application", "json">>,
     <<"application", "zip">>, <<"image", "png">>, <<"image", "svg+xml">>,
     <<"video", "mp4">>, <<"audio", "mpeg">>, <<"font", "ttf">>, <<>>}

\* contentType.includes(type + '/')
typeIncludes(contentType, type) == contentType[1] = type

\* The Content-Type sirv gives a file, by the extension of its name.
lookup(pathname) ==
    CASE endsWith(pathname, ".html") -> <<"text", "html">>
      [] endsWith(pathname, ".js") -> <<"text", "javascript">>
      [] endsWith(pathname, ".svg") -> <<"image", "svg+xml">>
      [] OTHER -> <<>>

\* Content-Length on either side of the threshold.
Lengths == {1023, 1024, 1025}

\* config.compressionLevel
Levels == {1, 6, 9}

\* The request and the two asset roots: the pathname asked for, which roots
\* hold a file for it, whether a .gz or .br file lies beside it that the
\* request's Accept-Encoding admits, and the length of the file.
Assets ==
    [pathname : Pathnames, client : BOOLEAN, prerendered : BOOLEAN,
     negotiable : BOOLEAN, length : Lengths]

\* The three values of Cache-Control in setHeaders.
Immutable == "public, immutable, max-age=31536000"
Revalidate == "public, max-age=0, must-revalidate"
Hour == "public, max-age=3600"

\* setHeaders: (res, pathname) => ...; sirv calls it before it sends, and
\* keeps a header that is already set on the response over its own.
setHeaders(pathname) ==
    IF pathIncludes(pathname, "immutable")
    THEN Immutable
    ELSE IF endsWith(pathname, ".html") THEN Revalidate ELSE Hour

\* createStaticMiddleware(dir, precompressed): the response of sirv for a
\* file it has.
createStaticMiddleware(dir, precompressed) ==
    [from |-> dir,
     cacheControl |-> setHeaders(asset.pathname),
     variant |-> precompressed /\ asset.negotiable,
     contentType |-> lookup(asset.pathname),
     length |-> asset.length]

\* app.use(createStaticMiddleware('client', true))
ServeClient ==
    /\ sent = NoResponse
    /\ asset.client
    /\ sent' = createStaticMiddleware("client", TRUE)
    /\ UNCHANGED <<compression, asset, contentEncoding>>
    /\ UNCHANGED <<vars, requestVars, buildVars, matchVars, limitVars>>

\* app.use(createStaticMiddleware('prerendered', false)), reached when the
\* client root has no file for the path.
ServePrerendered ==
    /\ sent = NoResponse
    /\ ~asset.client
    /\ asset.prerendered
    /\ sent' = createStaticMiddleware("prerendered", FALSE)
    /\ UNCHANGED <<compression, asset, contentEncoding>>
    /\ UNCHANGED <<vars, requestVars, buildVars, matchVars, limitVars>>

\* app.use((req, res) => handler(req, res)), reached when neither root has
\* a file: the application answers with a type and a length of its own.
ServeApp(contentType, length) ==
    /\ sent = NoResponse
    /\ ~asset.client
    /\ ~asset.prerendered
    /\ sent' = [from |-> "handler", cacheControl |-> "none",
                variant |-> FALSE, contentType |-> contentType,
                length |-> length]
    /\ UNCHANGED <<compression, asset, contentEncoding>>
    /\ UNCHANGED <<vars, requestVars, buildVars, matchVars, limitVars>>

\* compression.filter of the library: the types it holds compressible.
compressible(contentType) ==
    contentType \in
        {<<"text", "html">>, <<"text", "javascript">>,
         <<"application", "json">>, <<"image", "svg+xml">>, <<"font", "ttf">>}

\* A variant of the filter that leaves everything to compression.filter.
filter_default(contentType) == compressible(contentType)

\* filter: (req, res) => ...
filter(contentType) ==
    IF /\ contentType # <<>>
       /\ \/ typeIncludes(contentType, "image")
          \/ typeIncludes(contentType, "video")
          \/ typeIncludes(contentType, "audio")
          \/ typeIncludes(contentType, "font")
    THEN FALSE
    ELSE compressible(contentType)

\* threshold: 1024
threshold == 1024

\* createCompressionMiddleware(): what the handler does to a response when
\* its headers are flushed. Without config.compression the handler is
\* next() alone; with it, the library compresses at config.compressionLevel
\* what passes the filter, is not encoded already and is not shorter than
\* the threshold.
createCompressionMiddleware(response) ==
    IF ~compression.enabled
    THEN [coding |-> "identity", level |-> 0]
    ELSE IF /\ filter(response.contentType)
            /\ ~response.variant
            /\ ~(response.length < threshold)
         THEN [coding |-> "compressed", level |-> compression.level]
         ELSE [coding |-> "identity", level |-> 0]

\* The headers of the response are flushed.
Flush ==
    /\ sent # NoResponse
    /\ contentEncoding = NoEncoding
    /\ contentEncoding' = createCompressionMiddleware(sent)
    /\ UNCHANGED <<compression, asset, sent>>
    /\ UNCHANGED <<vars, requestVars, buildVars, matchVars, limitVars>>

ResponseInit ==
    /\ NoProcess
    /\ RequestIdle
    /\ limitBytes = MaxLimit
    /\ BuildIdle
    /\ MatchIdle
    /\ LimitIdle
    /\ compression \in [enabled : BOOLEAN, level : Levels]
    /\ asset \in Assets
    /\ sent = NoResponse
    /\ contentEncoding = NoEncoding

ResponseNext ==
    \/ ServeClient
    \/ ServePrerendered
    \/ \E contentType \in ResponseTypes, length \in Lengths :
           ServeApp(contentType, length)
    \/ Flush

ResponseSpec == ResponseInit /\ [][ResponseNext]_responseVars


\* ----------------------------------------------------------------- claims
\* The drain is suspended at an await whose answer comes from outside.
DrainAwaiting ==
    shutdownPc \in
        {"await_server_close", "await_ws_close", "await_sdk_shutdown"}

\* C1: whatever triggers arrive and however they interleave, exactly one
\* Draining sequence runs: the first trigger sets the flag and arms the one
\* deadline timer, and a trigger that finds the flag set arms no timer,
\* closes no listener, moves the drain nowhere and does not exit.
C1_OneDrainingSequence ==
    /\ [](/\ timersArmed <= 1
          /\ closeCalls <= 1
          /\ (triggers > 0 => isShuttingDown /\ timersArmed = 1))
    /\ [][(isShuttingDown /\ triggers' = triggers + 1)
            => /\ timersArmed' = timersArmed
               /\ forceShutdownTimer' = forceShutdownTimer
               /\ closeCalls' = closeCalls
               /\ server' = server
               /\ shutdownPc' = shutdownPc
               /\ drainLog' = drainLog
               /\ exitCode' = exitCode]_vars

\* C1 witness: a second trigger has been delivered to a process that is
\* draining; there is still one timer and one close.
C1_Witness ==
    /\ triggers = 2
    /\ timersArmed = 1
    /\ closeCalls = 1
    /\ shutdownPc = "await_server_close"
    /\ Alive

\* C2: a liveness probe answered before any trigger is 200 and one answered
\* after a trigger is 503, whatever the listener, the connections, the
\* telemetry SDK and the drain are doing.
C2_LivenessProbe ==
    lastProbe.path = "/health"
        => lastProbe.status = (IF lastProbe.triggered THEN 503 ELSE 200)

\* C2 witness: the probe answered 503 in a process that is draining.
C2_Witness ==
    /\ lastProbe.path = "/health"
    /\ lastProbe.status = 503
    /\ lastProbe.triggered
    /\ Alive

\* C3: the readiness probe answers 503 with the not-ready body while
\* shutdown is in progress and 200 with the ready body otherwise.
C3_ReadinessProbe ==
    lastProbe.path = "/readiness"
        => /\ lastProbe.triggered
               => lastProbe.status = 503
                  /\ lastProbe.body = "not ready: shutting down"
           /\ ~lastProbe.triggered
               => lastProbe.status = 200 /\ lastProbe.body = "ready"

\* C3 witness: the readiness probe answered 503 during the drain.
C3_Witness ==
    /\ lastProbe.path = "/readiness"
    /\ lastProbe.status = 503
    /\ isShuttingDown
    /\ Alive

\* The drain steps in the order gracefulShutdown lists them.
StepOrder ==
    <<"arm", "server_close", "server_closed", "ws_close", "ws_closed",
      "telemetry_stop", "telemetry_stopped", "clear_timeout">>

RankOf(step) == CHOOSE i \in 1..Len(StepOrder) : StepOrder[i] = step

Has(step) == \E i \in 1..Len(drainLog) : drainLog[i] = step

\* C4: the steps of a drain are taken in the listed order: the timer is
\* armed first; the listener is closed and its in-flight requests are done
\* before the upgrade-channel closes begin; every close that was sent has
\* finished before the telemetry stop begins; the timer is cancelled and
\* the process exits only after the telemetry stop has ended.
C4_DrainOrder ==
    /\ \A i, j \in 1..Len(drainLog) :
          i < j => RankOf(drainLog[i]) < RankOf(drainLog[j])
    /\ isShuttingDown => drainLog # <<>> /\ drainLog[1] = "arm"
    /\ Has("server_closed") => inFlightAtDrain = {} /\ InFlight = {}
    /\ (Has("server_close") /\ \/ Has("ws_close")
                               \/ Has("telemetry_stop")
                               \/ Has("clear_timeout"))
          => Has("server_closed")
    /\ (Has("ws_close") /\ (Has("telemetry_stop") \/ exitBy = "drain"))
          => Has("ws_closed") /\ \A c \in notified : conn[c] = "closed"
    /\ (Has("telemetry_stop") /\ Has("clear_timeout"))
          => Has("telemetry_stopped")
    /\ exitBy \in {"drain", "catch"} => Has("clear_timeout")

\* C4 witness: a drain that took every step and exited.
C4_Witness ==
    /\ drainLog = StepOrder
    /\ exitBy = "drain"

\* C5: after a drain the exit code is 0 exactly when no drain step threw,
\* the telemetry stop included, and the deadline did not fire; otherwise 1.
C5_ExitCode ==
    exitBy \in {"drain", "catch", "deadline"}
        => (exitCode = 0 <=> (stepThrew = {} /\ exitBy # "deadline"))

\* C6: a drain never lasts forever: when a step never resolves the timer
\* ends the process with code 1, and it does so only when the whole
\* deadline has passed since the drain began; a process that ends while a
\* drain step is unresolved never ends with code 0.
C6_DeadlineBoundsDrain ==
    /\ [](exitBy = "deadline"
            => exitCode = 1 /\ isShuttingDown /\ elapsed >= TimeoutTicks)
    /\ []((Exited /\ DrainAwaiting) => exitCode = 1)
    /\ (isShuttingDown ~> Exited)

\* C6 witness: sdk.shutdown() never resolved and the timer ended the
\* process.
C6_Witness ==
    /\ exitBy = "deadline"
    /\ shutdownPc = "await_sdk_shutdown"
    /\ elapsed = TimeoutTicks

\* C7: when the drain begins with upgrade-channel connections open and
\* nothing else, and the peers keep them open, every one of them is sent
\* the close notification and the drain is not ended by the deadline.
C7_UpgradeChannelsClosed ==
    (/\ Exited
     /\ closeCalls = 1
     /\ wsOnlyDrain)
        => Clients \subseteq notified /\ exitBy # "deadline"

\* C8: once the drain has begun the listener accepts no connection, and a
\* request that was in flight when it began is cut off by nothing but the
\* deadline: the process does not otherwise exit while it is unfinished.
C8_NoNewConnections ==
    /\ ~acceptedDraining
    /\ (Exited /\ inFlightAtDrain # {}) => exitBy = "deadline"

\* C9: when server.listen fails the process never listens and ends with a
\* non-zero exit code.
C9_BindFailureFatal ==
    bindFailed => server # "listening" /\ (Exited => exitCode # 0)

\* C10: when initTelemetry fails, start() still creates the listener and
\* calls listen (and listens when the port is free); the only start failure
\* that ends the process is that of the bind.
C10_TelemetryFailureNotFatal ==
    telemetryInit = "failed"
        => /\ server # "null"
           /\ startPc \in {"done", "rejected"}
           /\ cfg.port = "free" => server \in {"listening", "closed"}
           /\ exitBy = "start_catch" => cfg.port = "bad"

\* C10 witness: sdk.start() rejected and the process listens.
C10_Witness ==
    /\ telemetryInit = "failed"
    /\ sdk = "constructed"
    /\ server = "listening"
    /\ Alive

\* A status among those the response has been given.
Wrote(status) == \E i \in 1..Len(resWrites) : resWrites[i] = status

\* C11: for every sequence of body chunks of an engaged request, the chunk
\* that first takes the bytes received above the limit is answered 413 in
\* the same step and takes the data and end listeners off; from then on no
\* chunk is counted, kept or parsed; a request answered 413 has had no next
\* call; and 413 is written only when more than the limit has arrived.
C11_TooLargeAtFirstExcess ==
    [][/\ ("data" \in listeners /\ arrived <= limitBytes
              /\ arrived' > limitBytes)
          => /\ resWrites' = Append(resWrites, 413)
             /\ listeners' \cap {"data", "end"} = {}
       /\ Wrote(413)
          => /\ size' = size
             /\ data' = data
             /\ req' = req
             /\ nextCalls' = nextCalls
       /\ (\E i \in 1..Len(resWrites') : resWrites'[i] = 413)
          => /\ arrived' > limitBytes
             /\ nextCalls' = 0]_requestVars

\* A body went over the limit at its second chunk, was answered 413, and a
\* later chunk arrived and was dropped.
C11_Witness ==
    /\ resWrites = <<413>>
    /\ Len(data) = 1
    /\ arrived > size
    /\ nextCalls = 0

\* C12: whatever data, end and error events a request body brings, the
\* body parser lets no exception out of its callbacks: no shutdown trigger
\* is delivered, the shutdown flag stays unset and no drain begins.
C12_BodyErrorsContained ==
    /\ triggers = 0
    /\ isShuttingDown = FALSE
    /\ shutdownPc = "idle"

\* C13: when the body of an engaged request ends within the limit, a body
\* that does not parse is answered 400 without a next call, a body that
\* parses becomes req.body with one next call, and the body parser never
\* calls next twice for a request.
C13_ParseOutcome ==
    [][/\ ("end" \in listeners /\ stream = "flowing" /\ stream' = "ended")
          => IF \E i \in 1..Len(data) : data[i] = "invalid"
             THEN /\ resWrites' = Append(resWrites, 400)
                  /\ nextCalls' = nextCalls
                  /\ req' = req
                  /\ stage' = "answered"
             ELSE /\ req' = [req EXCEPT !.body = "parsed"]
                  /\ nextCalls' = nextCalls + 1
                  /\ resWrites' = resWrites
       /\ nextCalls' <= 1]_requestVars

\* A body of two chunks within the limit ended and did not parse.
C13_Witness ==
    /\ stream = "ended"
    /\ Len(data) = 2
    /\ resWrites = <<400>>
    /\ nextCalls = 0

\* The order the chain is meant to have.
ChainOrder ==
    <<"probes", "compression", "bodyParser", "static client",
      "static prerendered", "app">>

ChainRank(h) == CHOOSE i \in 1..Len(ChainOrder) : ChainOrder[i] = h

Reached(h) == \E i \in 1..Len(reached) : reached[i] = h

C15_PassesInSequence ==
    [][/\ pass2' # "none" => pass1' = "written"
       /\ (builds' = builds /\ pass1' # pass1)
          => (pass2 = "none" /\ pass2' = "none")]_buildVars

\* Pass 2 is bundling after Pass 1 has written its output.
C15_Witness ==
    /\ pass2 = "bundling"
    /\ pass1 = "written"
    /\ "server" \in outDir

\* C16: a build in which a pass failed is rejected and has written no
\* package.json; whenever the output directory holds a package.json, both
\* passes of the latest build (the one pass, in the one-pass version) have
\* completed their writes; after a rejected build the directory holds no
\* package.json, whatever earlier builds wrote.
C16_DescriptorOnlyAfterBothPasses ==
    /\ (pass1 = "failed" \/ pass2 = "failed") => buildPc = "rejected"
    /\ buildPc = "rejected" => "package.json" \notin outDir
    /\ "package.json" \in outDir
       => /\ pass1 = "written"
          /\ TwoPass => pass2 = "written"
          /\ buildPc = "resolved"

\* The second build failed in Pass 2 after the first build had written its
\* package.json.
C16_Witness ==
    /\ builds = 2
    /\ descriptorWrites = 1
    /\ pass2 = "failed"
    /\ buildPc = "rejected"

\* C17: in every version and for every `external` option, bundleAll flag
\* and package.json, the rules handed to Pass 1 hold the matcher of every
\* built-in module, so every reference to a built-in is kept external.
C17_BuiltinsAlwaysExternal ==
    pass1 # "none"
    => /\ compile(builtins) \subseteq externalPatterns
       /\ \A ref \in References :
              ref.name \in builtins => external(externalPatterns, ref)

\* The rules were compiled with bundleAll set and hold the built-ins.
C17_Witness ==
    /\ variant = "part_001"
    /\ options.bundleAll
    /\ options.external.kind = "list"
    /\ pass1 = "bundling"
    /\ externalPatterns = compile(builtins)

\* C18: with bundleAll set the compiled rules are the matchers of the
\* built-in modules and nothing else, whatever the `external` option and
\* the declared dependencies are.
C18_BundleAllOnlyBuiltins ==
    (pass1 # "none" /\ options.bundleAll)
    => externalPatterns = compile(builtins)

\* C19: with bundleAll not set the compiled rules are the matchers of the
\* built-ins, of the runtime dependencies, and of the names the `external`
\* option gives (an array or a function's result) or else of the declared
\* dependencies.
C19_DefaultRuleSet ==
    (pass1 # "none" /\ ~options.bundleAll)
    => externalPatterns =
           compile(builtins \cup runtimeDeps
                       \cup (IF options.external.kind = "none"
                             THEN pkg.dependencies
                             ELSE options.external.names))

\* C20: the rules of Pass 2 are those of Pass 1 and the rule for Pass 1's
\* output directory, and they keep every import of the runtime files into
\* that directory external.
C20_Pass2RulesSuperset ==
    pass2 # "none"
    => /\ externalPatterns \subseteq runtimeExternalPatterns
       /\ runtimeExternalPatterns = externalPatterns \cup {serverRule}
       /\ \A ref \in ServerImports :
              external(runtimeExternalPatterns, ref)

\* Pass 2 has written its output with rules compiled from an array.
C20_Witness ==
    /\ pass2 = "written"
    /\ options.external.kind = "list"
    /\ serverRule \in runtimeExternalPatterns

\* The references the claim lets the RegExp of name n accept: n, or n and
\* then "/" and anything, each also behind the scheme prefix.
Admitted(n, ref) ==
    \E prefix \in {<<>>, <<"node:">>} :
        LET whole == prefix \o n
        IN  \/ ref = whole
            \/ /\ Len(ref) > Len(whole)
               /\ SubSeq(ref, 1, Len(whole)) = whole
               /\ ref[Len(whole) + 1] = "/"

\* C21: the RegExp compiled for a name accepts a reference exactly when
\* the reference is the name, or the name followed by "/" and a subpath,
\* with or without the node: prefix; a longer name with the same start and
\* a character standing where the name has a metacharacter are rejected.
C21_MatcherAcceptsExactly ==
    rxVerdict # "none"
    => (rxVerdict = "accepts" <=> Admitted(rxName, rxRef))

\* A name with a dot was applied to a reference that has another character
\* in the dot's place, and rejected it.
C21_Witness ==
    /\ rxName = <<"a", ".">>
    /\ rxRef = <<"a", "b">>
    /\ rxVerdict = "rejects"

\* The user rule is a function whose result is not a list of names: it
\* throws, returns undefined, or returns a string.
Malformed(o) == o.external.kind = "function" /\ o.external.result # "names"

\* C22: once a build that reads a malformed user rule function is past the
\* evaluation of the rule, it is rejected, no pass has run and the output
\* directory holds no package.json; it never goes on with a rule set put
\* in the place of the rule's.
C22_MalformedRuleAborts ==
    (/\ Malformed(options)
     /\ readsExternal(variant, options)
     /\ buildPc \notin {"idle", "await_compress"})
    => /\ buildPc = "rejected"
       /\ pass1 = "none"
       /\ pass2 = "none"
       /\ "package.json" \notin outDir

\* C23: the dependency map of a written package.json has a key for every
\* dependency the project declares and for every runtime-support library,
\* whether or not the project declares that library.
C23_DescriptorCoversDependencies ==
    "package.json" \in outDir
    => (pkg.dependencies \cup runtimeDeps) \subseteq DOMAIN descriptor

\* A project that declares one package of its own and no runtime-support
\* library has its package.json written with both.
C23_Witness ==
    /\ "package.json" \in outDir
    /\ pkg.dependencies = {"lodash"}
    /\ {"lodash", "polka", "sirv", "@polka/url"} \subseteq DOMAIN descriptor

\* C24: in a written package.json every runtime-support library has the
\* adapter's pinned range, also when the project declares the library with
\* a range of its own.
C24_PinsOverrideProject ==
    "package.json" \in outDir
    => \A n \in runtimeDeps :
           n \in DOMAIN descriptor /\ descriptor[n] = "pinned"

\* C25: in a written package.json an observability package is a key
\* exactly when the project's package.json names it, and then with the
\* adapter's pinned range.
C25_ObservabilityOnlyIfReferenced ==
    "package.json" \in outDir
    => \A n \in otelPackages :
           /\ n \in DOMAIN descriptor <=> n \in DOMAIN allUserDeps(pkg)
           /\ n \in DOMAIN descriptor => descriptor[n] = "pinned"

\* The packages the runtime files import by name: files/index.js and
\* files/middlewares.js.
RuntimeImports == {"polka", "sirv", "compression"}

\* C26: when both passes have written and package.json is there, every
\* package the runtime files import that Pass 2's rules keep external is a
\* key of the dependency map.
C26_ExternalsResolvable ==
    (TwoPass /\ pass2 = "written" /\ "package.json" \in outDir)
    => \A n \in RuntimeImports :
           external(runtimeExternalPatterns,
                    [scheme |-> FALSE, name |-> n, tail |-> ""])
           => n \in DOMAIN descriptor

\* The module search paths in the options handed to Pass 2.
modulePaths ==
    LET resolve == get(pass2Options, "resolve", EmptyObject)
        paths == get(resolve, "modulePaths", <<>>)
    IN  {paths[i] : i \in DOMAIN paths}

\* C27: whatever rolldownOptions is, the module search paths handed to
\* Pass 2 hold the adapter's own node_modules directory.
C27_AdapterModulesSearched ==
    pass2 # "none" => adapterModules \in modulePaths

\* C28: every message an open socket receives is answered by exactly one
\* send on that socket, the error message for a text that is not JSON and
\* the echo for one that is, whatever came before it, and the socket is
\* open afterwards.
C28_OneReplyPerMessage ==
    [][wsMessages' # wsMessages
       => /\ ws = "open"
          /\ ws' = "open"
          /\ \E text \in Texts :
                 /\ wsMessages' = Append(wsMessages, text)
                 /\ wsSent' =
                        Append(wsSent,
                               IF text = "valid" THEN "echo" ELSE "error")]_requestVars

\* A malformed message and then a well-formed one have been answered.
C28_Witness ==
    /\ ws = "open"
    /\ wsMessages = <<"invalid", "valid">>
    /\ wsSent = <<"connected", "error", "echo">>

JsonOrForm ==
    {"application/json", "application/json; charset=utf-8",
     "application/x-www-form-urlencoded"}

\* C30: the body parser attaches its listeners only to a POST, PUT or
\* PATCH request with a JSON or form-encoded content type and no body yet;
\* for every other request its step calls next once, attaches no listener
\* and writes no response.
C30_GuardEngagesOnlyWhenDue ==
    [][stage = "bodyParser"
       => LET due == /\ req.method \in {"POST", "PUT", "PATCH"}
                     /\ req.contentType \in JsonOrForm
                     /\ req.body = "unset"
          IN  /\ listeners' # {} => due
              /\ stage' = "reading" => due
              /\ ~due => /\ nextCalls' = nextCalls + 1
                         /\ stage' = nextHandler("bodyParser")
                         /\ listeners' = {}
                         /\ stream' = stream
                         /\ resWrites' = resWrites]_requestVars

\* A POST with a content type that is neither JSON nor form-encoded has
\* passed the body parser.
C30_Witness ==
    /\ req.method = "POST"
    /\ req.contentType = "text/plain"
    /\ Len(reached) > 0
    /\ reached[Len(reached)] = "bodyParser"
    /\ nextCalls = 1
    /\ listeners = {}
    /\ resWrites = <<>>

\* C34: once the shutdown flag is set the listener does not begin to
\* listen: a start() that was suspended when the trigger came does not go
\* on to bind.
C34_NoListenWhileDraining ==
    [][(isShuttingDown /\ server' = "listening")
          => server = "listening"]_vars

\* C35: the flag is unset as long as no trigger has been handled, it is
\* set whenever the timer has been armed or the drain has left its idle
\* position, and no step resets it.
C35_FlagMonotonic ==
    /\ [](triggers = 0 => ~isShuttingDown)
    /\ []((timersArmed > 0 \/ shutdownPc # "idle") => isShuttingDown)
    /\ [][isShuttingDown => isShuttingDown']_vars

\* The flag is still set when the drain has run to its exit after a second
\* trigger.
C35_Witness ==
    /\ isShuttingDown
    /\ triggers = 2
    /\ exitBy = "drain"

\* C37: the exit code at the end of a drain is 0 when the steps ran to the
\* end of the try block and 1 when the catch block or the timer ended it,
\* whichever signal or fault began the drain.
C37_ExitCodeIgnoresTrigger ==
    (isShuttingDown /\ exitBy \in {"drain", "catch", "deadline"})
    => exitCode = IF exitBy = "drain" THEN 0 ELSE 1

\* A drain begun by an uncaught exception has completed with code 0.
C37_Witness ==
    /\ firstSignal = "UNCAUGHT_EXCEPTION"
    /\ stepThrew = {}
    /\ exitBy = "drain"
    /\ exitCode = 0

\* C39: sdk.shutdown() is called at most once, and only when initTelemetry
\* had succeeded.
C39_StopOnlyIfStarted ==
    [][sdkShutdownCalls' > sdkShutdownCalls
          => sdkShutdownCalls = 0 /\ telemetryInit = "ok"]_vars

\* C36: for a request the body parser has attached its listeners to, next
\* is called at most once, at most one response header is written, no
\* second header is attempted (the attempt throws), and a request answered
\* 413 or 400 has had no next call.
C36_OneOutcome ==
    "error" \in listeners
    => /\ nextCalls <= 1
       /\ Len(resWrites) <= 1
       /\ triggers = 0
       /\ (Wrote(413) \/ Wrote(400)) => nextCalls = 0

C38_RulesReachBundler ==
    /\ pass1 # "none"
       => /\ pass1Options.external = externalPatterns
          /\ \A ref \in References :
                 ref.name \in builtins
                 => external(pass1Options.external, ref)
    /\ pass2 # "none"
       => pass2Options.external = runtimeExternalPatterns

\* The unit of a limit string the claim reads: b, kb, mb or gb in either
\* case.
ClaimedUnits == unitsMatched \cup {<<"b">>}

\* What the claim gives for a body limit: the number itself; for digits
\* and then nothing or a unit, the value times 1, 1024, 1024^2 or 1024^3;
\* for any other string 10 * 1024 * 1024.
ClaimedLimit(limit) ==
    IF limit.kind = "number"
    THEN bytes(limit.value, <<>>, 1)
    ELSE LET s == limit.value
             n == run(s, 1, TRUE)
             unit == toLowerCase(SubSeq(s, n + 1, Len(s)))
         IN  IF n >= 1 /\ unit \in ClaimedUnits \cup {<<>>}
             THEN bytes(numeral(SubSeq(s, 1, n)), <<>>,
                        IF unit = <<>> THEN 1 ELSE multipliers(unit))
             ELSE bytes(10, <<>>, 1024 * 1024)

\* C40: the limit parseLimit returns is the one the claim gives for
\* config.bodyLimit, and it is not negative.
C40_LimitInBytes ==
    parsedLimit # <<>>
    => /\ parsedLimit[1] = ClaimedLimit(bodyLimit)
       /\ parsedLimit[1].whole >= 0

\* C33: the client root answers when it has the path and the prerendered
\* root when only it has; an immutable client asset carries the immutable
\* header and, when one can be negotiated, its precompressed variant; a
\* file of the prerendered root carries neither.
C33_StaticRoots ==
    sent # NoResponse
    => /\ asset.client => sent.from = "client"
       /\ ~asset.client /\ asset.prerendered => sent.from = "prerendered"
       /\ sent.from = "client" /\ pathIncludes(asset.pathname, "immutable")
          => /\ sent.cacheControl = Immutable
             /\ asset.negotiable => sent.variant
       /\ sent.from = "prerendered"
          => /\ sent.cacheControl # Immutable
             /\ ~sent.variant

\* The media types the claim excludes from compression.
MediaType(contentType) ==
    /\ contentType # <<>>
    /\ contentType[1] \in {"image", "video", "audio", "font"}

====
